---- MODULE Spec2Model ----
(***************************************************************************)
(* A model of the pixel-transform pipeline of Crimo_MOrpher:               *)
(*   bg_replacer.py       BackgroundReplacer (backdrop cache, matte)       *)
(*   morph_engine.py      MorphEngine (five effects and their dispatch)    *)
(*   landmark_detector.py LandmarkDetector (68-point landmark contract)    *)
(*   app.py               the request handlers that share one instance     *)
(*                                                                         *)
(* Python objects are modelled by reference: a numpy buffer is an id into  *)
(* `heap`, so that aliasing (two names for one buffer) and copying (a new  *)
(* id with equal content) are different things.  Floating-point values are *)
(* fixed-point integers; every scale is a named definition.  The blend of  *)
(* BackgroundReplacer.apply alone is carried out in float32, bit for bit.  *)
(***************************************************************************)
EXTENDS Integers, Sequences, FiniteSets, TLC

VARIABLES
    \* ---- BackgroundReplacer: the shared instance of app.py ------------
    heap,          \* buffer id -> content, the live numpy buffers
    cached_bg,     \* self._cached_bg: a buffer id, or NoBuf for None
    cached_size,   \* self._cached_size: <<w, h>>, or NoSize for None
    nextId,        \* the next fresh buffer id
    held,          \* ids of the buffers _make_mugshot_bg has returned
    lastCall,      \* <<the last completed sequential call>> (observation)
    firstRet,      \* size -> content first returned for it (observation)
    \* ---- request threads inside _make_mugshot_bg -----------------------
    pc,            \* thread -> position in _make_mugshot_bg
    req,           \* thread -> the (w, h) it was called with
    local_bg,      \* thread -> its local `bg`
    ret,           \* thread -> the buffer id it returned
    \* ---- LandmarkDetector ----------------------------------------------
    mp_face_mesh,  \* self.mp_face_mesh: TRUE for a FaceMesh, FALSE for None
    lm_call,       \* <<the last get_landmarks call and its return>>
    \* ---- MorphEngine: one request at app.py line 121 -------------------
    req_image,     \* the input image buffer's content
    req_landmarks, \* the 68 points, or NoPoints for None
    req_effect,    \* the effect id
    req_strength,  \* the strength, in tenths
    morphed,       \* <<what apply returned>>
    \* ---- _segment_person: one call at bg_replacer.py line 21 -----------
    seg_req,       \* the call's image shape, edge map and face bbox
    seg_call,      \* <<what the two grabCut calls did and the call's outcome>>
    \* ---- _keep_largest_blob: one call at bg_replacer.py line 177 -------
    blob_req,      \* the binary mask handed in
    blob_out,      \* <<the mask returned>>
    \* ---- BackgroundReplacer.apply: one call at app.py line 125 ---------
    bg_req,        \* the image apply is called with and the soft mask of line 21
    bg_out         \* <<the composite and what apply returned>>

cacheVars  == <<heap, cached_bg, cached_size, nextId, held, lastCall, firstRet>>
threadVars == <<pc, req, local_bg, ret>>
lmVars     == <<mp_face_mesh, lm_call>>
morphVars  == <<req_image, req_landmarks, req_effect, req_strength, morphed>>
vars == <<heap, cached_bg, cached_size, nextId, held, lastCall, firstRet,
          pc, req, local_bg, ret, mp_face_mesh, lm_call,
          req_image, req_landmarks, req_effect, req_strength, morphed,
          seg_req, seg_call, blob_req, blob_out, bg_req, bg_out>>
matteVars  == <<seg_req, seg_call, blob_req, blob_out, bg_req, bg_out>>


NoBuf  == 0        \* Python's None where a buffer is expected (ids are >= 1)
NoSize == <<>>     \* Python's None where a (w, h) tuple is expected

(***************************************************************************)
(* Bounds of the model.                                                    *)
(***************************************************************************)
MaxW == 2          \* backdrop widths 1..MaxW
MaxH == 36         \* backdrop heights MaxH \div 2 and MaxH
MaxBuf == 4        \* buffers allocated in one run of the sequential cache
MaxCase == 2       \* distinct case numbers drawn by np.random.randint
NThreads == 2      \* concurrent /morph requests
MaxThreadBuf == 6  \* buffers allocated in one run of the threaded cache
ImgW == 6          \* width of the images the effects are applied to
ImgH == 5          \* their height
MaxMeshShift == 1  \* distinct vertical shifts of a detected face mesh
MaxStrength10 == 20 \* the largest strength, in tenths
MatteW == 10       \* width of the images that are segmented
MatteH == 11       \* height of the images that are segmented
LocalW == 18       \* width of the frame the eye and mouth effects are applied to
LocalH == 3        \* its height
BlobW == 3         \* width of the masks whose largest blob is kept
BlobH == 3         \* their height
MaxBlobPixels == 5 \* the most white pixels in such a mask
CompW == 3         \* width of the frames that are composited
CompH == 3         \* their height

Widths  == 1..MaxW
Heights == {MaxH \div 2, MaxH}
CaseLo  == 1000    \* np.random.randint(1000, 9999): low end, inclusive
CaseNos == CaseLo..(CaseLo + MaxCase - 1)
Threads == 1..NThreads

(***************************************************************************)
(* Backdrop rendering, bg_replacer.py lines 37-82.  A buffer's content is  *)
(* the list of what was drawn into it: the gradient rows, the ruler marks, *)
(* the two bars and the footer text.                                       *)
(***************************************************************************)
\* int(a + t * k) with t = y / h, for non-negative operands
GradientChannel(a, k, y, h) == a + (k * y) \div h

\* line 40-42: the dark blue-gray gradient wall, one colour per row
GradientWall(h) ==
    [y \in 0..(h - 1) |->
        <<GradientChannel(30, 20, y, h),
          GradientChannel(40, 20, y, h),
          GradientChannel(70, 30, y, h)>>]

\* lines 45-66: the ruler marks that pass the `0 <= y_pos < h` test
RulerMarks(h) ==
    LET ruler_top   == (h * 5) \div 100
        ruler_bot   == (h * 90) \div 100
        ruler_range == ruler_bot - ruler_top
        total_inches == 36
        y_pos(ft, half) ==
            ruler_bot - ((ft * 12 + half - 48) * ruler_range) \div total_inches
    IN  {<<ft, half, y_pos(ft, half)>> :
            ft \in 4..7, half \in {0, 6}} \cap
        {<<ft, half, y>> \in (4..7) \X {0, 6} \X (0..(h - 1)) : TRUE}

Max2(a, b) == IF a >= b THEN a ELSE b
Min2(a, b) == IF a <= b THEN a ELSE b

\* lines 37-82: everything _make_mugshot_bg draws for (w, h); case_no is
\* the value np.random.randint returned
RenderMugshot(w, h, case_no) ==
    [w      |-> w,
     h      |-> h,
     wall   |-> GradientWall(h),
     marks  |-> RulerMarks(h),
     hdr_h  |-> Max2(28, (h * 65) \div 1000),
     ftr_y  |-> (h * 92) \div 100,
     footer |-> case_no]

\* the pixels outside the footer's timestamp / case-number fields
Gradients(c) == [c EXCEPT !.footer = 0]
Dims(c) == <<c.w, c.h>>

(***************************************************************************)
(* _make_mugshot_bg as one sequential call, bg_replacer.py lines 33-86.    *)
(***************************************************************************)
\* line 34: the cache test
CacheHit(bgId, size, w, h) == bgId # NoBuf /\ size = <<w, h>>

\* a hit that hands out the cached instance itself (no .copy())
HitReturnAliased(bgId, fresh) == bgId

\* line 35: `return self._cached_bg.copy()`: a fresh id with equal content
HitReturn(bgId, fresh) == fresh

\* line 84: `self._cached_bg = bg.copy()`: the cache keeps its own copy
MissStore(bgLocal, fresh) == fresh

\* a store of the key as (h, w), the order of numpy's shape
MissSizeSwapped(w, h) == <<h, w>>

\* line 85: `self._cached_size = (w, h)`
MissSize(w, h) == <<w, h>>

Live(h2, keep) == [b \in (DOMAIN h2) \cap keep |-> h2[b]]

MakeMugshotBg(w, h, case_no) ==
    IF CacheHit(cached_bg, cached_size, w, h)
    THEN \* lines 34-35
         LET r == HitReturn(cached_bg, nextId)
             h2 == [b \in DOMAIN heap \cup {nextId} |->
                      IF b = nextId THEN heap[cached_bg] ELSE heap[b]]
         IN  /\ nextId + 1 <= MaxBuf + 1
             /\ heap' = Live(h2, held \cup {r, cached_bg})
             /\ held' = held \cup {r}
             /\ nextId' = nextId + 1
             /\ lastCall' = <<[size |-> <<w, h>>, path |-> "hit", ret |-> r,
                               content |-> h2[r], before |-> cached_size,
                               cachedBefore |-> cached_bg]>>
             /\ firstRet' = firstRet
             /\ UNCHANGED <<cached_bg, cached_size>>
    ELSE \* lines 37-86
         LET bg == nextId
             c  == MissStore(bg, nextId + 1)
             img == RenderMugshot(w, h, case_no)
             h2 == [b \in DOMAIN heap \cup {bg, c} |->
                      IF b = bg THEN img
                      ELSE IF b = c THEN img
                      ELSE heap[b]]
         IN  /\ nextId + 2 <= MaxBuf + 1
             /\ heap' = Live(h2, held \cup {bg, c})
             /\ cached_bg' = c
             /\ cached_size' = MissSize(w, h)
             /\ held' = held \cup {bg}
             /\ nextId' = nextId + 2
             /\ lastCall' = <<[size |-> <<w, h>>, path |-> "miss", ret |-> bg,
                               content |-> h2[bg], before |-> cached_size,
                               cachedBefore |-> cached_bg]>>
             /\ firstRet' = IF <<w, h>> \in DOMAIN firstRet
                            THEN firstRet
                            ELSE [s \in DOMAIN firstRet \cup {<<w, h>>} |->
                                    IF s = <<w, h>> THEN h2[bg]
                                    ELSE firstRet[s]]

\* a request: BackgroundReplacer.apply line 20 calls _make_mugshot_bg(w, h)
Call ==
    \E w \in Widths, h \in Heights, case_no \in CaseNos :
        /\ MakeMugshotBg(w, h, case_no)
        /\ UNCHANGED <<threadVars, lmVars, morphVars, matteVars>>

\* a caller writes into a buffer it was handed (numpy buffers are mutable)
Scribble(c, y) == [c EXCEPT !.wall[y] = <<255, 255, 255>>]

CallerMutates ==
    \E b \in held, top \in BOOLEAN :
        LET y == IF top THEN 0 ELSE heap[b].h - 1
        IN  /\ heap[b].wall[y] # <<255, 255, 255>>
            /\ heap' = [heap EXCEPT ![b] = Scribble(heap[b], y)]
            /\ UNCHANGED <<cached_bg, cached_size, nextId, held, lastCall,
                           firstRet, threadVars, lmVars, morphVars, matteVars>>

IdleThreads ==
    /\ pc = [t \in Threads |-> "idle"]
    /\ req = [t \in Threads |-> NoSize]
    /\ local_bg = [t \in Threads |-> NoBuf]
    /\ ret = [t \in Threads |-> NoBuf]

\* BackgroundReplacer.__init__, lines 13-15
NewBackgroundReplacer ==
    /\ heap = <<>>
    /\ cached_bg = NoBuf
    /\ cached_size = NoSize
    /\ nextId = 1
    /\ held = {}
    /\ lastCall = <<>>
    /\ firstRet = <<>>
    /\ IdleThreads

\* the landmark detector while it is not the subject
LandmarksIdle ==
    /\ mp_face_mesh = FALSE
    /\ lm_call = <<>>

\* no request has reached the morph engine
MorphIdle ==
    /\ req_image = <<>>
    /\ req_landmarks = <<>>
    /\ req_effect = ""
    /\ req_strength = 0
    /\ morphed = <<>>

\* no call of _segment_person is under way
MatteIdle ==
    /\ seg_req = <<>>
    /\ seg_call = <<>>
    /\ blob_req = <<>>
    /\ blob_out = <<>>
    /\ bg_req = <<>>
    /\ bg_out = <<>>

InitCache == NewBackgroundReplacer /\ LandmarksIdle /\ MorphIdle /\ MatteIdle

NextCache == Call \/ CallerMutates
SpecCache == InitCache /\ [][NextCache]_vars

(***************************************************************************)
(* _make_mugshot_bg run by concurrent requests.  app.py creates one        *)
(* BackgroundReplacer at import (line 30) and every /morph request calls   *)
(* bg_replacer.apply on it (line 125); app.run (line 168) serves requests  *)
(* on threads.  The method takes no lock, so each read and write of        *)
(* self._cached_bg and self._cached_size is a step of its own.             *)
(***************************************************************************)
ThreadLive(t, h2, mine) ==
    Live(h2, mine
             \cup {local_bg[u] : u \in Threads \ {t}}
             \cup {ret[u] : u \in Threads \ {t}})

\* morph(), app.py line 125 -> apply line 20: the call begins
Begin(t) ==
    /\ pc[t] = "idle"
    /\ \E w \in Widths, h \in Heights :
           req' = [req EXCEPT ![t] = <<w, h>>]
    /\ pc' = [pc EXCEPT ![t] = "check_bg"]
    /\ UNCHANGED <<cacheVars, local_bg, ret,
                   lmVars, morphVars, matteVars>>

\* line 34, left operand: `self._cached_bg is not None`
CheckBg(t) ==
    /\ pc[t] = "check_bg"
    /\ pc' = [pc EXCEPT ![t] = IF cached_bg # NoBuf THEN "check_size"
                               ELSE "generate"]
    /\ UNCHANGED <<cacheVars, req, local_bg, ret,
                   lmVars, morphVars, matteVars>>

\* line 34, right operand: `self._cached_size == (w, h)`
CheckSize(t) ==
    /\ pc[t] = "check_size"
    /\ pc' = [pc EXCEPT ![t] = IF cached_size = req[t] THEN "hit"
                               ELSE "generate"]
    /\ UNCHANGED <<cacheVars, req, local_bg, ret,
                   lmVars, morphVars, matteVars>>

\* line 35: `return self._cached_bg.copy()` reads the attribute again
HitCopy(t) ==
    /\ pc[t] = "hit"
    /\ nextId <= MaxThreadBuf
    /\ ret' = [ret EXCEPT ![t] = nextId]
    /\ heap' = [b \in DOMAIN heap \cup {nextId} |->
                  IF b = nextId THEN heap[cached_bg] ELSE heap[b]]
    /\ nextId' = nextId + 1
    /\ pc' = [pc EXCEPT ![t] = "done"]
    /\ UNCHANGED <<cached_bg, cached_size, held, lastCall, firstRet,
                   req, local_bg,
                   lmVars, morphVars, matteVars>>

\* lines 37-82: the backdrop is drawn into the local `bg`
Generate(t) ==
    /\ pc[t] = "generate"
    /\ nextId <= MaxThreadBuf
    /\ \E case_no \in CaseNos :
           heap' = [b \in DOMAIN heap \cup {nextId} |->
                      IF b = nextId
                      THEN RenderMugshot(req[t][1], req[t][2], case_no)
                      ELSE heap[b]]
    /\ local_bg' = [local_bg EXCEPT ![t] = nextId]
    /\ nextId' = nextId + 1
    /\ pc' = [pc EXCEPT ![t] = "store_bg"]
    /\ UNCHANGED <<cached_bg, cached_size, held, lastCall, firstRet,
                   req, ret,
                   lmVars, morphVars, matteVars>>

\* line 84: `self._cached_bg = bg.copy()`
StoreBg(t) ==
    /\ pc[t] = "store_bg"
    /\ nextId <= MaxThreadBuf
    /\ cached_bg' = nextId
    /\ heap' = ThreadLive(t,
                  [b \in DOMAIN heap \cup {nextId} |->
                      IF b = nextId THEN heap[local_bg[t]] ELSE heap[b]],
                  {nextId, local_bg[t]})
    /\ nextId' = nextId + 1
    /\ pc' = [pc EXCEPT ![t] = "store_size"]
    /\ UNCHANGED <<cached_size, held, lastCall, firstRet,
                   req, local_bg, ret,
                   lmVars, morphVars, matteVars>>

\* line 85: `self._cached_size = (w, h)`
StoreSize(t) ==
    /\ pc[t] = "store_size"
    /\ cached_size' = MissSize(req[t][1], req[t][2])
    /\ pc' = [pc EXCEPT ![t] = "return"]
    /\ UNCHANGED <<heap, cached_bg, nextId, held, lastCall, firstRet,
                   req, local_bg, ret,
                   lmVars, morphVars, matteVars>>

\* line 86: `return bg`
Return(t) ==
    /\ pc[t] = "return"
    /\ ret' = [ret EXCEPT ![t] = local_bg[t]]
    /\ local_bg' = [local_bg EXCEPT ![t] = NoBuf]
    /\ pc' = [pc EXCEPT ![t] = "done"]
    /\ UNCHANGED <<cacheVars, req,
                   lmVars, morphVars, matteVars>>

\* the request ends (app.py line 133) and its buffers are dropped
Finish(t) ==
    /\ pc[t] = "done"
    /\ pc' = [pc EXCEPT ![t] = "idle"]
    /\ ret' = [ret EXCEPT ![t] = NoBuf]
    /\ req' = [req EXCEPT ![t] = NoSize]
    /\ heap' = ThreadLive(t, heap, {cached_bg})
    /\ UNCHANGED <<cached_bg, cached_size, nextId, held, lastCall, firstRet,
                   local_bg,
                   lmVars, morphVars, matteVars>>

NextThreads ==
    \E t \in Threads :
        \/ Begin(t)
        \/ CheckBg(t)
        \/ CheckSize(t)
        \/ HitCopy(t)
        \/ Generate(t)
        \/ StoreBg(t)
        \/ StoreSize(t)
        \/ Return(t)
        \/ Finish(t)

SpecThreads == InitCache /\ [][NextThreads]_vars

(***************************************************************************)
(* The backdrop cache: claims.                                             *)
(***************************************************************************)
\* C1: when requests call _make_mugshot_bg concurrently with different
\* (w, h), every call returns a backdrop of exactly the (w, h) it asked
\* for, and no call on the hit path sees a cached buffer whose dimensions
\* differ from the cached key.
C1_EachCallGetsItsSize ==
    /\ \A t \in Threads :
          pc[t] = "done" => Dims(heap[ret[t]]) = req[t]
    /\ \A t \in Threads :
          pc[t] = "hit" => Dims(heap[cached_bg]) = cached_size

\* C2: every call returns an image that equals, outside the footer's
\* fields, the one first returned for that (w, h), whatever callers wrote
\* into the buffers they were handed; the cached instance is never one of
\* the returned buffers.
C2_ReturnsNeverAliasCache ==
    /\ cached_bg \notin held
    /\ lastCall # <<>> =>
          Gradients(lastCall[1].content)
              = Gradients(firstRet[lastCall[1].size])

\* C2's case: a hit served after a caller wrote into an earlier buffer of
\* the same size.
C2_Witness ==
    /\ lastCall # <<>>
    /\ lastCall[1].path = "hit"
    /\ \E b \in held \ {lastCall[1].ret} :
          /\ Dims(heap[b]) = lastCall[1].size
          /\ heap[b].wall # GradientWall(heap[b].h)

\* C3: the cache holds at most one backdrop: buffer and key are set
\* together, the buffer has the key's dimensions, the key is the size last
\* asked for, and a call for another size than the cached one regenerates
\* and replaces the entry.
C3_OneEntryForLastSize ==
    /\ (cached_bg = NoBuf) <=> (cached_size = NoSize)
    /\ cached_bg # NoBuf =>
          /\ cached_bg \in DOMAIN heap
          /\ Dims(heap[cached_bg]) = cached_size
    /\ lastCall # <<>> =>
          /\ cached_size = lastCall[1].size
          /\ lastCall[1].before # lastCall[1].size =>
                /\ lastCall[1].path = "miss"
                /\ cached_bg # lastCall[1].cachedBefore

\* C3's case: a call for a size other than the cached one.
C3_Witness ==
    /\ lastCall # <<>>
    /\ lastCall[1].before # NoSize
    /\ lastCall[1].before # lastCall[1].size
    /\ cached_size = lastCall[1].size

(***************************************************************************)
(* Arithmetic shared by the numeric code.  Python's int() and numpy's      *)
(* astype(int) truncate toward zero; \div rounds toward minus infinity.    *)
(***************************************************************************)
Abs(n) == IF n < 0 THEN -n ELSE n

\* int(n / d) for d > 0
Trunc(n, d) == IF n >= 0 THEN n \div d ELSE -((-n) \div d)

\* np.clip(v, lo, hi) == minimum(maximum(v, lo), hi)
Clip(v, lo, hi) == Min2(Max2(v, lo), hi)

\* cos of an angle given in half-degrees, in units of 1/TrigScale; the
\* table holds the first quadrant of the angles _geometric uses
TrigScale == 10000
CosQuadrant ==
    0 :> 10000 @@ 18 :> 9877 @@ 36 :> 9511 @@ 45 :> 9239 @@ 54 :> 8910 @@
    60 :> 8660 @@ 72 :> 8090 @@ 90 :> 7071 @@ 108 :> 5878 @@ 120 :> 5000 @@
    126 :> 4540 @@ 135 :> 3827 @@ 144 :> 3090 @@ 162 :> 1564 @@ 180 :> 0

\* np.cos
Cos(hd) ==
    LET a == hd % 720
        b == IF a > 360 THEN 720 - a ELSE a
    IN  IF b > 180 THEN -CosQuadrant[360 - b] ELSE CosQuadrant[b]

\* np.sin
Sin(hd) == Cos(hd - 180 + 720)

(***************************************************************************)
(* LandmarkDetector, landmark_detector.py.                                 *)
(***************************************************************************)
NoBox == <<>>      \* bbox=None
NoPoints == <<>>   \* a landmarks value of None

\* lines 56-65: the MediaPipe index of each of the 68 points
mp_to_68 ==
    <<10, 338, 297, 332, 284, 251, 389, 356, 454, 323, 361, 288, 397, 365,
      379, 378, 400,
      70, 63, 105, 66, 107,
      336, 296, 334, 293, 300,
      168, 6, 197, 195, 5, 4, 1, 19, 94,
      33, 160, 158, 133, 153, 144,
      362, 385, 387, 263, 373, 380,
      61, 39, 37, 0, 267, 269, 291, 405, 314, 17, 84, 181,
      78, 82, 13, 312, 308, 317, 14, 87>>

\* face.landmark[idx] of a detected mesh: normalised coordinates in
\* thousandths; a mesh is [len, ax, bx, ay, by] with
\* lm.x = (ax * idx + bx) / 1000 wrapped into [-0.2, 1.2)
MeshCoord(a, b, idx) == ((a * idx + b) % 1400) - 200

\* lines 67-73: one of the 68 points
MediapipePoint(mesh, idx, w, h) ==
    IF idx < mesh.len
    THEN <<Trunc(MeshCoord(mesh.ax, mesh.bx, idx) * w, 1000),
           Trunc(MeshCoord(mesh.ay, mesh.by, idx) * h, 1000)>>
    ELSE <<w \div 2, h \div 2>>

\* lines 46-77: _mediapipe; `outcome` is what FaceMesh.process did:
\* "raises", "no_face", or a mesh
Mediapipe(w, h, outcome) ==
    IF outcome.kind = "raises" THEN NoPoints            \* lines 76-77
    ELSE IF outcome.kind = "no_face" THEN NoPoints      \* lines 50-51
    ELSE [i \in 1..Len(mp_to_68) |->
            MediapipePoint(outcome.mesh, mp_to_68[i], w, h)]

\* lines 84-90: the box _geometric works from
GeometricBox(w_img, h_img, bbox) ==
    LET b == IF bbox = NoBox
             THEN <<Trunc(w_img * 15, 100), Trunc(h_img * 15, 100),
                    Trunc(w_img * 85, 100), Trunc(h_img * 85, 100)>>
             ELSE bbox
        x1 == Max2(0, b[1])
        y1 == Max2(0, b[2])
        x2 == Max2(x1 + 1, Min2(b[3], w_img))
        y2 == Max2(y1 + 1, Min2(b[4], h_img))
    IN  [x1 |-> x1, y1 |-> y1, x2 |-> x2, y2 |-> y2,
         fw |-> x2 - x1, fh |-> y2 - y1,
         cx |-> x1 + (x2 - x1) \div 2, cy |-> y1 + (y2 - y1) \div 2]

\* int(c + f * (k / 100) * trig) with trig in 1/TrigScale
Arc(c, f, k, trig) == Trunc(c * 100 * TrigScale + f * k * trig, 100 * TrigScale)
\* int(c + f * (k / 1000) * trig)
Arc1000(c, f, k, trig) ==
    Trunc(c * 1000 * TrigScale + f * k * trig, 1000 * TrigScale)
\* int(c + f * (k / 10000))
Lin(c, f, k) == Trunc(c * 10000 + f * k, 10000)

\* lines 96-100: jaw, 17 points on an arc; a = 18 + 9 i degrees
Jaw(g) ==
    [i \in 1..17 |->
        <<Arc(g.cx, g.fw, 48, Cos(36 + 18 * (i - 1))),
          Arc(g.cy, g.fh, 50, Sin(36 + 18 * (i - 1)))>>]

\* lines 102-104: right eyebrow, 5 points
RightEyebrow(g) ==
    [i \in 1..5 |->
        <<Lin(g.x1, g.fw, 1800 + 550 * (i - 1)), Lin(g.y1, g.fh, 2800)>>]

\* lines 106-108: left eyebrow, 5 points
LeftEyebrow(g) ==
    [i \in 1..5 |->
        <<Lin(g.x1, g.fw, 6000 + 550 * (i - 1)), Lin(g.y1, g.fh, 2800)>>]

\* lines 110-113: nose, 9 points; t * pi = 22.5 i degrees
Nose(g) ==
    [i \in 1..9 |->
        <<Arc(g.cx, g.fw, 4, Sin(45 * (i - 1))),
          Lin(g.y1, g.fh, 3800 + 275 * (i - 1))>>]

\* lines 117-119 and 123-125: an eye, 6 points around (ecx, ecy)
Eye(g, ecx, ecy) ==
    [i \in 1..6 |->
        <<Arc(ecx, g.fw, 7, Cos(120 * (i - 1))),
          Arc1000(ecy, g.fh, 35, Sin(120 * (i - 1)))>>]

\* lines 116, 122: the eye centres
RightEye(g) == Eye(g, Lin(g.x1, g.fw, 3000), Lin(g.y1, g.fh, 3800))
LeftEye(g)  == Eye(g, Lin(g.x1, g.fw, 7000), Lin(g.y1, g.fh, 3800))

\* lines 128-131: outer mouth, 12 points
MouthOuter(g) ==
    [i \in 1..12 |->
        <<Arc(g.cx, g.fw, 16, Cos(60 * (i - 1))),
          Arc(Lin(g.y1, g.fh, 7200), g.fh, 5, Sin(60 * (i - 1)))>>]

\* lines 134-136: inner mouth, 8 points
MouthInner(g) ==
    [i \in 1..8 |->
        <<Arc(g.cx, g.fw, 10, Cos(90 * (i - 1))),
          Arc(Lin(g.y1, g.fh, 7200), g.fh, 3, Sin(90 * (i - 1)))>>]

\* lines 139-140: every point clipped into the image
ClipPoints(pts, w_img, h_img) ==
    [i \in 1..Len(pts) |->
        <<Clip(pts[i][1], 0, w_img - 1), Clip(pts[i][2], 0, h_img - 1)>>]

\* lines 94-136: `pts` in the order the code appends them
GeometricPoints(g) ==
    Jaw(g) \o RightEyebrow(g) \o LeftEyebrow(g) \o Nose(g) \o
    RightEye(g) \o LeftEye(g) \o MouthOuter(g) \o MouthInner(g)

\* lines 81-141: _geometric
Geometric(w_img, h_img, bbox) ==
    LET pts == GeometricPoints(GeometricBox(w_img, h_img, bbox))
    IN  ClipPoints(SubSeq(pts, 1, Min2(68, Len(pts))), w_img, h_img)

\* a call that hands back whatever _mediapipe returned
GetLandmarksNoFallback(mesh_ok, w, h, bbox, outcome) ==
    IF mesh_ok THEN Mediapipe(w, h, outcome) ELSE Geometric(w, h, bbox)

\* lines 36-42: get_landmarks
GetLandmarks(mesh_ok, w, h, bbox, outcome) ==
    IF mesh_ok /\ Mediapipe(w, h, outcome) # NoPoints
    THEN Mediapipe(w, h, outcome)
    ELSE Geometric(w, h, bbox)

\* the images and boxes get_landmarks is called with, and what
\* FaceMesh.process does
LmBoxes(w, h) ==
    {NoBox,
     <<0, 0, w, h>>,
     <<w \div 4, h \div 4, (3 * w) \div 4, (3 * h) \div 4>>,
     <<-2, -3, w + 3, h + 2>>,
     <<w, h, w, h>>,
     <<3, 3, 1, 1>>}
Meshes ==
    {[len |-> n, ax |-> a, bx |-> 137, ay |-> 7, by |-> b] :
        n \in {0, 300, 478}, a \in {3, 11}, b \in 0..MaxMeshShift}
NoMesh == [len |-> 0, ax |-> 0, bx |-> 0, ay |-> 0, by |-> 0]
LmOutcomes ==
    {[kind |-> "raises", mesh |-> NoMesh],
     [kind |-> "no_face", mesh |-> NoMesh]} \cup
    {[kind |-> "face", mesh |-> m] : m \in Meshes}

\* app.py lines 82 and 118: landmark_detector.get_landmarks(image, bbox)
GetLandmarksCall ==
    \E size \in {<<ImgW, ImgH>>, <<8 * ImgW, 8 * ImgH>>},
       outcome \in LmOutcomes :
        \E bbox \in LmBoxes(size[1], size[2]) :
            /\ lm_call' = <<[w |-> size[1], h |-> size[2], bbox |-> bbox,
                             outcome |-> outcome,
                             result |-> GetLandmarks(mp_face_mesh, size[1],
                                                     size[2], bbox, outcome)]>>
            /\ UNCHANGED <<mp_face_mesh, cacheVars, threadVars, morphVars,
                           matteVars>>

\* LandmarkDetector.__init__, lines 19-34: mp_face_mesh stays None when
\* mediapipe is not installed or FaceMesh() raises
NewLandmarkDetector ==
    /\ mp_face_mesh \in BOOLEAN
    /\ lm_call = <<>>

InitLandmarks ==
    NewLandmarkDetector /\ NewBackgroundReplacer /\ MorphIdle /\ MatteIdle
SpecLandmarks == InitLandmarks /\ [][GetLandmarksCall]_vars

(***************************************************************************)
(* The landmark contract: claims.                                          *)
(***************************************************************************)
PreciseYieldsNothing(c) ==
    \/ ~mp_face_mesh
    \/ c.outcome.kind \in {"raises", "no_face"}

Regions(pts) ==
    <<SubSeq(pts, 1, 17), SubSeq(pts, 18, 22), SubSeq(pts, 23, 27),
      SubSeq(pts, 28, 36), SubSeq(pts, 37, 42), SubSeq(pts, 43, 48),
      SubSeq(pts, 49, 60), SubSeq(pts, 61, 68)>>

\* C9: get_landmarks never returns None and always returns exactly 68
\* two-dimensional integer points, whether the precise detector is absent,
\* finds no face, raises or succeeds; when it yields nothing the result is
\* the geometric estimate built from the bbox: jaw (17), right eyebrow (5),
\* left eyebrow (5), nose (9), right eye (6), left eye (6), outer mouth
\* (12), inner mouth (8), in that order.
C9_AlwaysSixtyEightPoints ==
    lm_call # <<>> =>
        LET c == lm_call[1]
            g == GeometricBox(c.w, c.h, c.bbox)
        IN  /\ c.result # NoPoints
            /\ Len(c.result) = 68
            /\ \A i \in 1..Len(c.result) :
                  /\ Len(c.result[i]) = 2
                  /\ c.result[i][1] \in Int
                  /\ c.result[i][2] \in Int
            /\ PreciseYieldsNothing(c) =>
                  Regions(c.result) =
                      <<ClipPoints(Jaw(g), c.w, c.h),
                        ClipPoints(RightEyebrow(g), c.w, c.h),
                        ClipPoints(LeftEyebrow(g), c.w, c.h),
                        ClipPoints(Nose(g), c.w, c.h),
                        ClipPoints(RightEye(g), c.w, c.h),
                        ClipPoints(LeftEye(g), c.w, c.h),
                        ClipPoints(MouthOuter(g), c.w, c.h),
                        ClipPoints(MouthInner(g), c.w, c.h)>>

\* C9's case: the precise detector is initialised and raises, and the
\* geometric estimate comes back.
C9_Witness ==
    /\ lm_call # <<>>
    /\ mp_face_mesh
    /\ lm_call[1].outcome.kind = "raises"
    /\ lm_call[1].bbox # NoBox
    /\ Len(lm_call[1].result) = 68
    /\ Cardinality({lm_call[1].result[i] : i \in 1..68}) > 17

(***************************************************************************)
(* Images and the numeric kernel of the warp engine.  An image is          *)
(* [w, h, px] with px[<<y, x>>] a <<b, g, r>> sample, as numpy indexes     *)
(* image[y, x].  Real-valued quantities are held in units of 1/Q.          *)
(***************************************************************************)
Q == 1024

\* the largest r with r * r <= n
RECURSIVE ISqrtIter(_, _, _)
ISqrtIter(n, lo, hi) ==
    IF lo >= hi THEN lo
    ELSE LET mid == (lo + hi + 1) \div 2
         IN  IF mid * mid <= n THEN ISqrtIter(n, mid, hi)
             ELSE ISqrtIter(n, lo, mid - 1)
ISqrt(n) == ISqrtIter(n, 0, Min2(n, 46340))

\* round(n / d) for d > 0
Round(n, d) == (2 * n + d) \div (2 * d)

MulQ(a, b) == (a * b) \div Q

\* x ** k for a whole k >= 0
RECURSIVE PowInt(_, _)
PowInt(x, k) == IF k = 0 THEN Q ELSE MulQ(x, PowInt(x, k - 1))

\* x ** (f / 256) for 0 <= f < 256, by repeated square roots: bit i of f
\* (from the top) contributes x ** (1 / 2^i)
RECURSIVE PowFrac(_, _, _)
PowFrac(root, f, bit) ==
    IF bit = 0 \/ f = 0 THEN Q
    ELSE LET r == ISqrt(root * Q)
         IN  IF f >= bit THEN MulQ(r, PowFrac(r, f - bit, bit \div 2))
             ELSE PowFrac(r, f, bit \div 2)

\* norm_dist ** e with e = e256 / 256
Pow(x, e256) == MulQ(PowInt(x, e256 \div 256), PowFrac(x, e256 % 256, 128))

Pixels(w, h) == (0..(h - 1)) \X (0..(w - 1))

\* an array held as its table of values: comparing a function makes TLC
\* tabulate it, so that each entry is computed once
Array(f) == IF f = f THEN f ELSE f
Image(w, h, px) == [w |-> w, h |-> h, px |-> Array(px)]

\* f[lo] + ... + f[hi]
RECURSIVE Sum(_, _, _)
Sum(f, lo, hi) ==
    IF lo > hi THEN 0
    ELSE IF lo = hi THEN f[lo]
    ELSE LET mid == (lo + hi) \div 2
         IN  Sum(f, lo, mid) + Sum(f, mid + 1, hi)

\* what an OpenCV call that rejects its input leaves: an exception
Raised == [w |-> -1, h |-> -1, px |-> <<>>]

\* cv2.BORDER_REFLECT: fedcba|abcdefgh|hgfedcb
RECURSIVE Reflect(_, _)
Reflect(i, n) ==
    IF n = 1 THEN 0
    ELSE IF i < 0 THEN Reflect(-i - 1, n)
    ELSE IF i >= n THEN Reflect(2 * n - i - 1, n)
    ELSE i

\* cv2.remap keeps INTER_BITS = 5 fractional bits of each map entry
InterTabSize == 32

\* one channel of one bilinear sample at (sx, sy) / InterTabSize
Bilinear(img, sx, sy, ch) ==
    LET ix == sx \div InterTabSize
        iy == sy \div InterTabSize
        fx == sx % InterTabSize
        fy == sy % InterTabSize
        x0 == Reflect(ix, img.w)
        x1 == Reflect(ix + 1, img.w)
        y0 == Reflect(iy, img.h)
        y1 == Reflect(iy + 1, img.h)
        one == InterTabSize
    IN  ( img.px[<<y0, x0>>][ch] * (one - fx) * (one - fy)
        + img.px[<<y0, x1>>][ch] * fx * (one - fy)
        + img.px[<<y1, x0>>][ch] * (one - fx) * fy
        + img.px[<<y1, x1>>][ch] * fx * fy
        + (one * one) \div 2 ) \div (one * one)

\* cv2.remap(img, map_x, map_y, cv2.INTER_LINEAR, borderMode=BORDER_REFLECT);
\* map[<<y, x>>] is <<map_x, map_y>> in units of 1/Q; an empty source is
\* rejected
Remap(img, map) ==
    IF img.w <= 0 \/ img.h <= 0 THEN Raised
    ELSE Image(img.w, img.h,
           [p \in Pixels(img.w, img.h) |->
              LET sx == Round(map[p][1] * InterTabSize, Q)
                  sy == Round(map[p][2] * InterTabSize, Q)
              IN  <<Bilinear(img, sx, sy, 1), Bilinear(img, sx, sy, 2),
                    Bilinear(img, sx, sy, 3)>>])

(***************************************************************************)
(* Landmark geometry, morph_engine.py.                                     *)
(***************************************************************************)
\* pts.mean(axis=0).astype(int), lines 51, 133, 176, 238
Centre(pts) ==
    <<Trunc(Sum([i \in 1..Len(pts) |-> pts[i][1]], 1, Len(pts)), Len(pts)),
      Trunc(Sum([i \in 1..Len(pts) |-> pts[i][2]], 1, Len(pts)), Len(pts))>>

Dist2(p, c) == (p[1] - c[1]) * (p[1] - c[1]) + (p[2] - c[2]) * (p[2] - c[2])

SetMax(S) == CHOOSE m \in S : \A n \in S : n <= m

\* a face radius that is widened by a margin of three pixels
FaceRadiusPadded(landmarks, c) ==
    ISqrt((SetMax({Dist2(landmarks[i], c) : i \in 1..17}) * 121) \div 100) + 3

\* int(np.max(np.linalg.norm(jaw - face_center, axis=1)) * 1.1),
\* lines 55-56 and 136-137: floor(1.1 * sqrt(d2)) = isqrt(1.21 * d2)
FaceRadius(landmarks, c) ==
    ISqrt((SetMax({Dist2(landmarks[i], c) : i \in 1..17}) * 121) \div 100)

\* np.max(pts[:, k]) - np.min(pts[:, k]), lines 180-181 and 242-243
Extent(pts, k) ==
    SetMax({pts[i][k] : i \in 1..Len(pts)})
    + SetMax({-pts[i][k] : i \in 1..Len(pts)})

\* dist / radius for a pixel at squared distance d2 < radius * radius
NormDist(d2, radius) == ISqrt(d2 * Q * Q) \div radius

(***************************************************************************)
(* The effects.  `strength` is held in tenths (S10 = 10 * strength).       *)
(***************************************************************************)
\* a scale that grows as the distance shrinks
RadialScaleOutward(nd, amount256) ==
    IF nd > 0 THEN 2 * Q - (Pow(nd, 256 + amount256) * Q) \div nd ELSE Q

\* lines 77-79: new_dist / norm_dist, 1.0 at the centre; `amount256` is
\* the amount added to the exponent 1.0, in 1/256
RadialScale(nd, amount256) ==
    IF nd > 0 THEN (Pow(nd, 256 + amount256) * Q) \div nd ELSE Q

\* a bulge whose exponent starts at 1.5
BulgeAmountOffset(S10) == Round(S10 * 128, 10) + 128

\* line 77: bulge_amount = strength * 0.5, in 1/256
BulgeAmount(S10) == Round(S10 * 128, 10)

\* lines 58-82: the displacement field of _bulge
BulgeMap(w, h, c, radius, S10) ==
    Array([p \in Pixels(w, h) |->
              LET dx == p[2] - c[1]
                  dy == p[1] - c[2]
                  d2 == dx * dx + dy * dy
              IN  IF d2 < radius * radius
                  THEN LET scale == RadialScale(NormDist(d2, radius), BulgeAmount(S10))
                       IN  <<c[1] * Q + dx * scale, c[2] * Q + dy * scale>>
                  ELSE <<p[2] * Q, p[1] * Q>>])

\* lines 42-86: _bulge
Bulge(image, landmarks, S10) ==
    LET c == Centre(landmarks)
    IN  Remap(image, BulgeMap(image.w, image.h, c, FaceRadius(landmarks, c), S10))

\* a squeeze that is applied at full strength whatever strength is
SqueezeAmountFixed(S10) == (3 * Q) \div 10

\* line 151: squeeze = strength * 0.3, in 1/Q
SqueezeAmount(S10) == (3 * S10 * Q) \div 100

\* lines 139-158: the displacement field of _squeeze
SqueezeMap(w, h, c, radius, S10) ==
    Array([p \in Pixels(w, h) |->
              LET dx == p[2] - c[1]
                  dy == p[1] - c[2]
                  d2 == dx * dx + dy * dy
              IN  IF d2 < radius * radius
                  THEN LET falloff == Q - NormDist(d2, radius)
                           sx == Q + MulQ(SqueezeAmount(S10), falloff)
                           sy == Q - MulQ(SqueezeAmount(S10), falloff) \div 2
                       IN  <<c[1] * Q + dx * sx, c[2] * Q + dy * sy>>
                  ELSE <<p[2] * Q, p[1] * Q>>])

\* lines 125-162: _squeeze
Squeeze(image, landmarks, S10) ==
    LET c == Centre(landmarks)
    IN  Remap(image, SqueezeMap(image.w, image.h, c, FaceRadius(landmarks, c), S10))

\* Python's a[lo:hi] on an axis of length n: <<start, stop>>, negative
\* indices counted from the end, both clamped, empty when stop <= start
PySlice(lo, hi, n) ==
    LET start == IF lo < 0 THEN Max2(lo + n, 0) ELSE Min2(lo, n)
        stop  == IF hi < 0 THEN Max2(hi + n, 0) ELSE Min2(hi, n)
    IN  <<start, Max2(start, stop)>>

\* result[y1:y2, x1:x2].copy(), lines 195 and 256
Crop(img, ys, xs) ==
    Image(xs[2] - xs[1], ys[2] - ys[1],
          [p \in Pixels(xs[2] - xs[1], ys[2] - ys[1]) |->
              img.px[<<p[1] + ys[1], p[2] + xs[1]>>]])

\* a splice that blanks what lies outside the region
PasteAlone(img, ys, xs, warped) ==
    Image(img.w, img.h,
          [p \in Pixels(img.w, img.h) |->
              IF /\ ys[1] <= p[1] /\ p[1] < ys[2]
                 /\ xs[1] <= p[2] /\ p[2] < xs[2]
              THEN warped.px[<<p[1] - ys[1], p[2] - xs[1]>>]
              ELSE <<0, 0, 0>>])

\* result[y1:y2, x1:x2] = warped, lines 224 and 286
Paste(img, ys, xs, warped) ==
    Image(img.w, img.h,
          [p \in Pixels(img.w, img.h) |->
              IF /\ ys[1] <= p[1] /\ p[1] < ys[2]
                 /\ xs[1] <= p[2] /\ p[2] < xs[2]
              THEN warped.px[<<p[1] - ys[1], p[2] - xs[1]>>]
              ELSE img.px[p]])

\* line 182: int(max(eye_w, eye_h) * 1.5)
EyeRadius(eye_pts) == (Max2(Extent(eye_pts, 1), Extent(eye_pts, 2)) * 3) \div 2

\* line 184: the radius below which an eye is skipped
MinEyeRadius == 5

\* line 215: magnify = strength * 0.6, in 1/256
Magnify(S10) == Round(S10 * 1536, 100)

\* lines 200-220: the displacement field of one eye, in region coordinates
EyeMap(rw, rh, rc, radius, S10) ==
    Array([p \in Pixels(rw, rh) |->
              LET dx == p[2] - rc[1]
                  dy == p[1] - rc[2]
                  d2 == dx * dx + dy * dy
              IN  IF d2 < radius * radius
                  THEN LET scale == RadialScale(NormDist(d2, radius), Magnify(S10))
                       IN  <<rc[1] * Q + dx * scale, rc[2] * Q + dy * scale>>
                  ELSE <<p[2] * Q, p[1] * Q>>])

\* a loop body that passes over an eye only below a radius of 3
OneEyeLowFloor(result, eye_pts, S10) ==
    LET e      == Centre(eye_pts)
        radius == EyeRadius(eye_pts)
        r      == radius + 10
        ys     == PySlice(Max2(0, e[2] - r), Min2(result.h, e[2] + r), result.h)
        xs     == PySlice(Max2(0, e[1] - r), Min2(result.w, e[1] + r), result.w)
        region == Crop(result, ys, xs)
        rc     == <<e[1] - Max2(0, e[1] - r), e[2] - Max2(0, e[2] - r)>>
        warped == Remap(region, EyeMap(region.w, region.h, rc, radius, S10))
    IN  IF result = Raised THEN Raised
        ELSE IF radius < 3 THEN result
        ELSE IF warped = Raised THEN Raised
        ELSE Paste(result, ys, xs, warped)

\* lines 176-224: the body of the loop over the two eyes
OneEye(result, eye_pts, S10) ==
    LET e      == Centre(eye_pts)
        radius == EyeRadius(eye_pts)
        r      == radius + 10
        ys     == PySlice(Max2(0, e[2] - r), Min2(result.h, e[2] + r), result.h)
        xs     == PySlice(Max2(0, e[1] - r), Min2(result.w, e[1] + r), result.w)
        region == Crop(result, ys, xs)
        rc     == <<e[1] - Max2(0, e[1] - r), e[2] - Max2(0, e[2] - r)>>
        warped == Remap(region, EyeMap(region.w, region.h, rc, radius, S10))
    IN  IF result = Raised THEN Raised
        ELSE IF radius < MinEyeRadius THEN result          \* lines 184-185
        ELSE IF warped = Raised THEN Raised
        ELSE Paste(result, ys, xs, warped)

\* lines 164-226: _big_eyes, right eye then left eye on one working copy
BigEyes(image, landmarks, S10) ==
    OneEye(OneEye(image, SubSeq(landmarks, 37, 42), S10),
           SubSeq(landmarks, 43, 48), S10)

\* line 244: int(max(mouth_w, mouth_h) * 1.8)
MouthRadius(mouth) == (Max2(Extent(mouth, 1), Extent(mouth, 2)) * 18) \div 10

\* line 246: the radius below which the mouth is left alone
MinMouthRadius == 10

\* lines 261-282: the displacement field of the mouth, in region coordinates
SmileMap(rw, rh, rc, radius, S10) ==
    Array([p \in Pixels(rw, rh) |->
              LET dx == p[2] - rc[1]
                  dy == p[1] - rc[2]
                  d2 == dx * dx + dy * dy
              IN  IF d2 < radius * radius
                  THEN LET falloff == Q - NormDist(d2, radius)
                           stretch == (3 * S10 * Q) \div 100           \* line 274
                           sx      == Q + MulQ(stretch, falloff)       \* line 275
                           curve   == (S10 * Q) \div 2                 \* line 278
                           ratio2  == (dx * dx * Q) \div (radius * radius)
                           curve_offset == -MulQ(MulQ(curve, falloff), ratio2)
                       IN  <<rc[1] * Q + dx * sx, rc[2] * Q + dy * Q + curve_offset>>
                  ELSE <<p[2] * Q, p[1] * Q>>])

\* lines 228-288: _wide_smile
WideSmile(image, landmarks, S10) ==
    LET mouth  == SubSeq(landmarks, 49, 68)
        m      == Centre(mouth)
        radius == MouthRadius(mouth)
        r      == radius + 15
        ys     == PySlice(Max2(0, m[2] - r), Min2(image.h, m[2] + r), image.h)
        xs     == PySlice(Max2(0, m[1] - r), Min2(image.w, m[1] + r), image.w)
        region == Crop(image, ys, xs)
        rc     == <<m[1] - Max2(0, m[1] - r), m[2] - Max2(0, m[2] - r)>>
        warped == Remap(region, SmileMap(region.w, region.h, rc, radius, S10))
    IN  IF radius < MinMouthRadius THEN image              \* lines 246-247
        ELSE IF warped = Raised THEN Raised
        ELSE Paste(image, ys, xs, warped)

(***************************************************************************)
(* _cartoon, lines 88-123, over the OpenCV filters it calls.               *)
(***************************************************************************)
\* cv2.BORDER_REFLECT_101 (BORDER_DEFAULT): gfedcb|abcdefgh|gfedcba
RECURSIVE Reflect101(_, _)
Reflect101(i, n) ==
    IF n = 1 THEN 0
    ELSE IF i < 0 THEN Reflect101(-i, n)
    ELSE IF i >= n THEN Reflect101(2 * n - 2 - i, n)
    ELSE i

\* 2 ** (-k / 8) in 1/1024, k = 0..7

\* exp(-num / den) in units of 1/Q: 2 ** -(num / den * log2(e)), the
\* fraction of the exponent kept to eighths
ExpNeg(num, den) ==
    LET y == (num * 1477) \div den
        n == y \div 1024
        k == (y % 1024) \div 128
        table == <<1024, 939, 861, 790, 724, 664, 609, 558>>
    IN  IF n >= 20 THEN 0 ELSE ((table[k + 1] * Q) \div 1024) \div (2 ^ n)

\* line 96: the filter diameter d; OpenCV's radius is d / 2
BilateralD == 9

\* the k x k taps around a pixel, numbered 0 .. k * k - 1 row by row
Tap(i, k) == <<(i \div k) - (k \div 2), (i % k) - (k \div 2)>>

\* the weight of tap i at pixel p: the taps outside the disc of radius
\* d / 2 are not visited
TapWeight(img, p, i, s2c, s2s) ==
    LET t  == Tap(i, BilateralD)
        r  == BilateralD \div 2
        q  == <<Reflect101(p[1] + t[1], img.h), Reflect101(p[2] + t[2], img.w)>>
        a  == img.px[p]
        b  == img.px[q]
        k  == Abs(a[1] - b[1]) + Abs(a[2] - b[2]) + Abs(a[3] - b[3])
    IN  IF t[1] * t[1] + t[2] * t[2] > r * r THEN 0
        ELSE MulQ(ExpNeg(t[1] * t[1] + t[2] * t[2], s2s), ExpNeg(k * k, s2c))

\* one pass of cv2.bilateralFilter(src, d, sigma_color, sigma_space); a
\* sigma <= 0 is replaced by 1
BilateralFilter(img, sigma_color, sigma_space) ==
    LET sc  == IF sigma_color <= 0 THEN 1 ELSE sigma_color
        ss  == IF sigma_space <= 0 THEN 1 ELSE sigma_space
        s2c == 2 * sc * sc
        s2s == 2 * ss * ss
        n   == BilateralD * BilateralD
        at(p, i) == img.px[<<Reflect101(p[1] + Tap(i, BilateralD)[1], img.h),
                             Reflect101(p[2] + Tap(i, BilateralD)[2], img.w)>>]
    IN  Image(img.w, img.h,
          [p \in Pixels(img.w, img.h) |->
              LET wt   == Array([i \in 0..(n - 1) |-> TapWeight(img, p, i, s2c, s2s)])
                  wsum == Sum(wt, 0, n - 1)
              IN  <<Round(Sum([i \in 0..(n - 1) |-> wt[i] * at(p, i)[1]], 0, n - 1), wsum),
                    Round(Sum([i \in 0..(n - 1) |-> wt[i] * at(p, i)[2]], 0, n - 1), wsum),
                    Round(Sum([i \in 0..(n - 1) |-> wt[i] * at(p, i)[3]], 0, n - 1), wsum)>>])

\* lines 101-103: `passes` bilateral passes
RECURSIVE Smooth(_, _, _, _)
Smooth(img, passes, sigma_color, sigma_space) ==
    IF passes = 0 THEN img
    ELSE Smooth(BilateralFilter(img, sigma_color, sigma_space),
                passes - 1, sigma_color, sigma_space)

\* cv2.cvtColor(image, COLOR_BGR2GRAY): 15-bit fixed-point weights
Gray(img) ==
    Array([p \in Pixels(img.w, img.h) |->
              (img.px[p][1] * 3735 + img.px[p][2] * 19235 + img.px[p][3] * 9798
               + 16384) \div 32768])

\* the k x k window around p with replicated borders: tap number -> value
Window(gray, w, h, p, k) ==
    Array([i \in 0..(k * k - 1) |->
              gray[<<Clip(p[1] + Tap(i, k)[1], 0, h - 1),
                     Clip(p[2] + Tap(i, k)[2], 0, w - 1)>>]])

\* line 107: cv2.medianBlur(gray, 7)
MedianK == 7
MedianBlur(gray, w, h) ==
    Array([p \in Pixels(w, h) |->
              LET win  == Window(gray, w, h, p, MedianK)
                  half == (MedianK * MedianK) \div 2
              IN  CHOOSE v \in {win[i] : i \in DOMAIN win} :
                    /\ Cardinality({i \in DOMAIN win : win[i] < v}) <= half
                    /\ Cardinality({i \in DOMAIN win : win[i] <= v}) > half])

\* lines 110-117: cv2.adaptiveThreshold(gray_blur, 255, ADAPTIVE_THRESH_MEAN_C,
\* THRESH_BINARY, block_size, C): 255 where src > mean - C
BlockSize == 9
AdaptiveThreshold(gray, w, h, C) ==
    Array([p \in Pixels(w, h) |->
              LET win  == Window(gray, w, h, p, BlockSize)
                  mean == Round(Sum(win, 0, BlockSize * BlockSize - 1),
                                BlockSize * BlockSize)
              IN  IF gray[p] > mean - C THEN 255 ELSE 0])


\* lines 88-123: _cartoon; the landmarks are not read
Cartoon(image, landmarks, S10) ==
    LET passes == Max2(1, (S10 * 2) \div 10)          \* line 95
        sigma_color == (75 * S10) \div 10             \* line 97
        sigma_space == (75 * S10) \div 10             \* line 98
        smooth == Smooth(image, passes, sigma_color, sigma_space)
        gray_blur == MedianBlur(Gray(image), image.w, image.h)
        edges == AdaptiveThreshold(gray_blur, image.w, image.h,
                                   (20 + S10 * 3) \div 10)  \* line 116
    IN  Image(image.w, image.h,
          [p \in Pixels(image.w, image.h) |->
              IF edges[p] = 255 THEN smooth.px[p] ELSE <<0, 0, 0>>])  \* line 121

(***************************************************************************)
(* MorphEngine.apply, lines 15-40.                                         *)
(***************************************************************************)
EFFECTS == <<"bulge", "cartoon", "squeeze", "big_eyes", "wide_smile">>

\* a dispatch table whose squeeze entry points at _bulge
EffectMapSqueezeLost(effect_name) ==
    CASE effect_name = "bulge"      -> "_bulge"
      [] effect_name = "cartoon"    -> "_cartoon"
      [] effect_name = "squeeze"    -> "_bulge"
      [] effect_name = "big_eyes"   -> "_big_eyes"
      [] effect_name = "wide_smile" -> "_wide_smile"
      [] OTHER                      -> "_bulge"

\* lines 31-39: effect_map.get(effect_name, self._bulge)
EffectMap(effect_name) ==
    CASE effect_name = "bulge"      -> "_bulge"
      [] effect_name = "cartoon"    -> "_cartoon"
      [] effect_name = "squeeze"    -> "_squeeze"
      [] effect_name = "big_eyes"   -> "_big_eyes"
      [] effect_name = "wide_smile" -> "_wide_smile"
      [] OTHER                      -> "_bulge"

\* line 40: func(image, landmarks, strength)
CallEffect(func, image, landmarks, S10) ==
    CASE func = "_bulge"      -> Bulge(image, landmarks, S10)
      [] func = "_cartoon"    -> Cartoon(image, landmarks, S10)
      [] func = "_squeeze"    -> Squeeze(image, landmarks, S10)
      [] func = "_big_eyes"   -> BigEyes(image, landmarks, S10)
      [] func = "_wide_smile" -> WideSmile(image, landmarks, S10)

\* an apply that hands the input back when there are no landmarks
ApplyNoCopy(image, landmarks, effect_name, S10) ==
    IF landmarks = NoPoints
    THEN [img |-> image, buf |-> "input", func |-> "none"]
    ELSE [img |-> CallEffect(EffectMap(effect_name), image, landmarks, S10),
          buf |-> "fresh", func |-> EffectMap(effect_name)]

\* lines 28-40: apply; `buf` tells the returned buffer from the input
\* buffer, `func` names the effect function that ran
Apply(image, landmarks, effect_name, S10) ==
    IF landmarks = NoPoints
    THEN [img |-> image, buf |-> "fresh", func |-> "none"]   \* image.copy()
    ELSE [img |-> CallEffect(EffectMap(effect_name), image, landmarks, S10),
          buf |-> "fresh", func |-> EffectMap(effect_name)]

(***************************************************************************)
(* Requests to MorphEngine.apply: app.py line 121.                         *)
(***************************************************************************)
Ramp(w, h) ==
    Image(w, h, [p \in Pixels(w, h) |->
        <<(37 * p[2] + 11 * p[1] + 3) % 256,
          (53 * p[1] + 5 * p[2] + 20) % 256,
          (17 * p[1] * p[2] + 90) % 256>>])
Step(w, h) ==
    Image(w, h, [p \in Pixels(w, h) |->
        IF 2 * p[2] < w THEN <<100, 100, 100>> ELSE <<200, 200, 200>>])
Flat(w, h) ==
    Image(w, h, [p \in Pixels(w, h) |-> <<128, 128, 128>>])

\* 68 coincident points
Degenerate(pt) == [i \in 1..68 |-> pt]
\* a detected face larger than the image and not clamped to it: the
\* estimate for an 8x frame, moved by `off`
WideFace(off) ==
    LET pts == Geometric(8 * ImgW, 8 * ImgH, NoBox)
    IN  [i \in 1..Len(pts) |-> <<pts[i][1] + off[1], pts[i][2] + off[2]>>]

MorphLandmarks ==
    {NoPoints} \cup
    {Degenerate(pt) : pt \in {<<2, 2>>, <<0, 0>>, <<ImgW + 3, -2>>}} \cup
    {Geometric(ImgW, ImgH, bbox) : bbox \in {NoBox, <<1, 0, ImgW, ImgH>>}} \cup
    {WideFace(off) : off \in {<<-4 * ImgW + 3, -4 * ImgH + 2>>,
                              <<-2 * ImgW, -3 * ImgH>>}}

\* lines 31-37: the keys of effect_map, and two ids that are not keys
Known == {EFFECTS[i] : i \in 1..Len(EFFECTS)}
UnknownIds == {"sepia", ""}

\* morph_engine.apply(image, landmarks, effect, strength), app.py line 121
ApplyCall ==
    /\ morphed = <<>>
    /\ morphed' = <<Apply(req_image, req_landmarks, req_effect, req_strength)>>
    /\ UNCHANGED <<req_image, req_landmarks, req_effect, req_strength,
                   cacheVars, threadVars, lmVars, matteVars>>

\* a request as it reaches line 121
InitMorph ==
    /\ req_image \in {Ramp(ImgW, ImgH), Step(ImgW, ImgH), Flat(ImgW, ImgH)}
    /\ req_landmarks \in MorphLandmarks
    /\ req_effect \in Known \cup UnknownIds
    /\ req_strength \in {0, MaxStrength10 \div 4, MaxStrength10 \div 2,
                         MaxStrength10}
    /\ morphed = <<>>
    /\ NewBackgroundReplacer /\ LandmarksIdle /\ MatteIdle

SpecMorph == InitMorph /\ [][ApplyCall]_vars

Coincide(pts) == pts # NoPoints /\ \A i \in 1..Len(pts) : pts[i] = pts[1]

\* C4: with no landmarks, apply returns for every effect id, known or not,
\* and every strength an image equal to the input, in a buffer other than
\* the input's, and runs no effect function.
C4_NoLandmarksCopiesInput ==
    (morphed # <<>> /\ req_landmarks = NoPoints) =>
        /\ morphed[1].img = req_image
        /\ morphed[1].buf = "fresh"
        /\ morphed[1].func = "none"

\* C4's case: an unknown id at full strength without landmarks
C4_Witness ==
    /\ morphed # <<>>
    /\ req_landmarks = NoPoints
    /\ req_effect \in UnknownIds
    /\ req_strength = MaxStrength10
    /\ req_image = Ramp(ImgW, ImgH)

\* C5 as stated: with 68 coincident landmarks, apply returns an image equal
\* to the input for each of the five effects and every strength.
C5_DegenerateIsIdentity ==
    (morphed # <<>> /\ Coincide(req_landmarks) /\ req_effect \in Known) =>
        morphed[1].img = req_image

\* C5, amended: with 68 coincident landmarks, apply returns a fresh image
\* equal to the input for bulge, squeeze, big_eyes and wide_smile at every
\* strength; cartoon does not read the landmarks, and what it returns for
\* them is what it returns for any others.
C5_DegenerateIsIdentityButCartoon ==
    (morphed # <<>> /\ Coincide(req_landmarks) /\ req_effect \in Known) =>
        /\ req_effect # "cartoon" =>
              /\ morphed[1].img = req_image
              /\ morphed[1].buf = "fresh"
        /\ req_effect = "cartoon" =>
              morphed[1].img = Cartoon(req_image, NoPoints, req_strength)

\* C5's case: a bulge at full strength about a point inside the image,
\* where all 68 landmarks lie
C5_Witness ==
    /\ morphed # <<>>
    /\ req_landmarks = Degenerate(<<2, 2>>)
    /\ req_effect = "bulge"
    /\ req_strength = MaxStrength10
    /\ req_image = Ramp(ImgW, ImgH)
    /\ morphed[1].img = req_image

\* C6: an effect id outside the five known ones gets, for every image,
\* landmark set and strength, what "bulge" gets; each known id runs its own
\* effect function.
C6_UnknownFallsBackToBulge ==
    (morphed # <<>> /\ req_landmarks # NoPoints) =>
        LET out(f) == [img |-> CallEffect(f, req_image, req_landmarks, req_strength),
                       buf |-> "fresh", func |-> f]
        IN  /\ req_effect \notin Known =>
                  /\ morphed[1] = out("_bulge")
                  /\ morphed[1] = Apply(req_image, req_landmarks, "bulge", req_strength)
            /\ req_effect = "bulge"      => morphed[1] = out("_bulge")
            /\ req_effect = "cartoon"    => morphed[1] = out("_cartoon")
            /\ req_effect = "squeeze"    => morphed[1] = out("_squeeze")
            /\ req_effect = "big_eyes"   => morphed[1] = out("_big_eyes")
            /\ req_effect = "wide_smile" => morphed[1] = out("_wide_smile")

\* C6's case: an unknown id whose bulge moves pixels
C6_Witness ==
    /\ morphed # <<>>
    /\ req_effect = "sepia"
    /\ req_landmarks = Geometric(ImgW, ImgH, NoBox)
    /\ req_strength > 0
    /\ morphed[1].func = "_bulge"
    /\ morphed[1].img # req_image

\* C10: squeeze at strength 0 has the identity displacement field, inside
\* the face radius and outside it, and returns an image equal to the input
\* for every image and landmark set.
C10_SqueezeZeroIsIdentity ==
    (morphed # <<>> /\ req_landmarks # NoPoints /\ req_effect = "squeeze"
              /\ req_strength = 0) =>
        LET c == Centre(req_landmarks)
            map == SqueezeMap(req_image.w, req_image.h, c,
                              FaceRadius(req_landmarks, c), 0)
        IN  /\ \A p \in Pixels(req_image.w, req_image.h) :
                  map[p] = <<p[2] * Q, p[1] * Q>>
            /\ morphed[1].img = req_image

\* C10's case: a face whose radius covers pixels of a textured image
C10_Witness ==
    /\ morphed # <<>>
    /\ req_effect = "squeeze"
    /\ req_strength = 0
    /\ req_image = Ramp(ImgW, ImgH)
    /\ req_landmarks = Geometric(ImgW, ImgH, NoBox)
    /\ FaceRadius(req_landmarks, Centre(req_landmarks)) > 1
    /\ morphed[1].img = req_image

\* C11 as stated: bulge at strength 0 does not have the identity field; some
\* pixel strictly inside the face radius is sampled from a coordinate other
\* than its own.
C11_BulgeZeroMovesAPixel ==
    (morphed # <<>> /\ req_landmarks # NoPoints /\ req_effect = "bulge"
              /\ req_strength = 0) =>
        LET c == Centre(req_landmarks)
            radius == FaceRadius(req_landmarks, c)
            map == BulgeMap(req_image.w, req_image.h, c, radius, 0)
            inside == {p \in Pixels(req_image.w, req_image.h) :
                          Dist2(<<p[2], p[1]>>, c) < radius * radius}
        IN  inside # {} => \E p \in inside : map[p] # <<p[2] * Q, p[1] * Q>>

\* C11, amended: bulge at strength 0 has the identity field: the exponent
\* 1.0 + 0.5 * strength is exactly 1, every pixel, inside the face radius
\* or outside it, is sampled from its own coordinate, and the image that
\* comes back equals the input.
C11_BulgeZeroIsIdentity ==
    (morphed # <<>> /\ req_landmarks # NoPoints /\ req_effect = "bulge"
              /\ req_strength = 0) =>
        LET c == Centre(req_landmarks)
            map == BulgeMap(req_image.w, req_image.h, c,
                            FaceRadius(req_landmarks, c), 0)
        IN  /\ 256 + BulgeAmount(0) = 256
            /\ \A p \in Pixels(req_image.w, req_image.h) :
                  map[p] = <<p[2] * Q, p[1] * Q>>
            /\ morphed[1].img = req_image

\* C11's case: a face whose radius covers pixels of a textured image
C11_Witness ==
    /\ morphed # <<>>
    /\ req_effect = "bulge"
    /\ req_strength = 0
    /\ req_image = Ramp(ImgW, ImgH)
    /\ req_landmarks = Geometric(ImgW, ImgH, NoBox)
    /\ FaceRadius(req_landmarks, Centre(req_landmarks)) > 2
    /\ morphed[1].func = "_bulge"
    /\ morphed[1].img = req_image

\* C12 as stated: for bulge at a strength above 0, every pixel strictly
\* inside the face radius and off the centre is sampled from a coordinate
\* farther from the centre than itself: the scale on its offset exceeds 1.
C12_BulgeSamplesFarther ==
    (morphed # <<>> /\ req_landmarks # NoPoints /\ req_effect = "bulge"
              /\ req_strength > 0) =>
        LET c == Centre(req_landmarks)
            radius == FaceRadius(req_landmarks, c)
            map == BulgeMap(req_image.w, req_image.h, c, radius, req_strength)
        IN  \A p \in Pixels(req_image.w, req_image.h) :
                LET dx == p[2] - c[1]
                    dy == p[1] - c[2]
                    d2 == dx * dx + dy * dy
                IN  (0 < d2 /\ d2 < radius * radius) =>
                        \E scale \in (Q + 1)..(4 * Q) :
                            map[p] = <<c[1] * Q + dx * scale, c[2] * Q + dy * scale>>

\* C12, amended: for bulge at strength 1.0, and at every strength from 0.5
\* up, every pixel strictly inside the face radius and off the centre is
\* sampled from a coordinate nearer to the centre than itself: the scale
\* new_dist / norm_dist on its offset is below 1.
C12_BulgeSamplesNearer ==
    (morphed # <<>> /\ req_landmarks # NoPoints /\ req_effect = "bulge"
              /\ req_strength >= 5) =>
        LET c == Centre(req_landmarks)
            radius == FaceRadius(req_landmarks, c)
            map == BulgeMap(req_image.w, req_image.h, c, radius, req_strength)
        IN  \A p \in Pixels(req_image.w, req_image.h) :
                LET dx == p[2] - c[1]
                    dy == p[1] - c[2]
                    d2 == dx * dx + dy * dy
                    scale == RadialScale(NormDist(d2, radius),
                                         BulgeAmount(req_strength))
                IN  (0 < d2 /\ d2 < radius * radius) =>
                        /\ 0 <= scale /\ scale < Q
                        /\ map[p] = <<c[1] * Q + dx * scale, c[2] * Q + dy * scale>>

\* C12's case: strength 1.0 on a face whose radius covers pixels off its
\* centre; the image that comes back differs from the input
C12_Witness ==
    /\ morphed # <<>>
    /\ req_effect = "bulge"
    /\ req_strength = 10
    /\ req_image = Ramp(ImgW, ImgH)
    /\ req_landmarks = Geometric(ImgW, ImgH, NoBox)
    /\ FaceRadius(req_landmarks, Centre(req_landmarks)) > 2
    /\ morphed[1].img # req_image

(***************************************************************************)
(* Requests whose eyes and mouth lie about the edges of a wide frame: the  *)
(* precise detector's points, landmark_detector.py lines 67-73, are not    *)
(* cut to the image.                                                       *)
(***************************************************************************)
\* point i of a horizontal segment of half-width s.a about s.c
Segment(s, i) == <<s.c[1] + (IF i % 2 = 0 THEN s.a ELSE -s.a), s.c[2]>>

\* a mesh of 68 points: the jaw, the right eye, the left eye and the mouth
\* are segments, the eyebrows and the nose sit at the middle of the jaw
LocalFace(jaw, right_eye, left_eye, mouth) ==
    [i \in 1..68 |->
        IF i <= 17 THEN Segment(jaw, i)
        ELSE IF i <= 36 THEN jaw.c
        ELSE IF i <= 42 THEN Segment(right_eye, i)
        ELSE IF i <= 48 THEN Segment(left_eye, i)
        ELSE Segment(mouth, i)]

\* faces about the frame: eyes and mouth across its left and right edges;
\* a small eye or mouth next to a large one; eyes and mouth beyond the
\* right edge, far left of the frame, or one eye inside and one beyond
LocalFaces ==
    LET at(x, a) == [c |-> <<x, 1>>, a |-> a]
        jaw == at(LocalW \div 2, 4)
    IN  {LocalFace(jaw, at(-3, 2), at(LocalW + 2, 2), at(-8, 3)),
         LocalFace(jaw, at(3, 1), at(LocalW + 2, 2), at(3, 2)),
         LocalFace(jaw, at(-3, 2), at(LocalW - 4, 1), at(3, 1)),
         LocalFace(jaw, at(LocalW + 22, 2), at(LocalW + 30, 2), at(LocalW + 32, 3)),
         LocalFace(jaw, at(-30, 2), at(-31, 2), at(-40, 3)),
         LocalFace(jaw, at(-3, 2), at(LocalW + 22, 2), at(LocalW \div 2, 3)),
         LocalFace(jaw, at(4, 0), at(4, 0), at(4, 0))}

\* a request as it reaches app.py line 121
InitLocal ==
    /\ req_image = Ramp(LocalW, LocalH)
    /\ req_landmarks \in LocalFaces
    /\ req_effect \in Known \cup {"sepia"}
    /\ req_strength \in {0, MaxStrength10 \div 4, MaxStrength10 \div 2,
                         MaxStrength10}
    /\ morphed = <<>>
    /\ NewBackgroundReplacer /\ LandmarksIdle /\ MatteIdle

SpecLocal == InitLocal /\ [][ApplyCall]_vars

\* lines 190-195 and 251-256: the rows and the columns of the region cut
\* about centre c with half-side r
LocalRect(c, r, w, h) ==
    [ys |-> PySlice(Max2(0, c[2] - r), Min2(h, c[2] + r), h),
     xs |-> PySlice(Max2(0, c[1] - r), Min2(w, c[1] + r), w),
     rc |-> <<c[1] - Max2(0, c[1] - r), c[2] - Max2(0, c[2] - r)>>]

\* C13: the geometric effects leave the pixels outside their mask alone.
\* For bulge and squeeze a pixel at distance >= face_radius from the face
\* centre maps to itself and keeps its value; for big_eyes and wide_smile a
\* pixel outside the rectangles cut about the eyes or the mouth keeps the
\* input's value, and a pixel of a rectangle at distance >= the eye's or
\* the mouth's radius from its centre maps to itself.
C13_OutsideTheMaskUnchanged ==
    (morphed # <<>> /\ req_landmarks # NoPoints /\ morphed[1].img # Raised) =>
        LET w == req_image.w
            h == req_image.h
            out == morphed[1].img
            c == Centre(req_landmarks)
            radius == FaceRadius(req_landmarks, c)
            self(p) == <<p[2] * Q, p[1] * Q>>
            far(p, o, rad) == Dist2(<<p[2], p[1]>>, o) >= rad * rad
            within(p, rect) == /\ rect.ys[1] <= p[1] /\ p[1] < rect.ys[2]
                               /\ rect.xs[1] <= p[2] /\ p[2] < rect.xs[2]
            eye(k) == SubSeq(req_landmarks, 31 + 6 * k, 36 + 6 * k)
            eyeRect(k) == LocalRect(Centre(eye(k)), EyeRadius(eye(k)) + 10, w, h)
            warps(k) == EyeRadius(eye(k)) >= MinEyeRadius
            mouth == SubSeq(req_landmarks, 49, 68)
            mouthRect == LocalRect(Centre(mouth), MouthRadius(mouth) + 15, w, h)
            region(rect) == Pixels(rect.xs[2] - rect.xs[1], rect.ys[2] - rect.ys[1])
        IN  /\ morphed[1].func = "_bulge" =>
                  \A p \in Pixels(w, h) : far(p, c, radius) =>
                      /\ BulgeMap(w, h, c, radius, req_strength)[p] = self(p)
                      /\ out.px[p] = req_image.px[p]
            /\ morphed[1].func = "_squeeze" =>
                  \A p \in Pixels(w, h) : far(p, c, radius) =>
                      /\ SqueezeMap(w, h, c, radius, req_strength)[p] = self(p)
                      /\ out.px[p] = req_image.px[p]
            /\ morphed[1].func = "_big_eyes" =>
                  /\ \A p \in Pixels(w, h) :
                        (\A k \in 1..2 : warps(k) => ~within(p, eyeRect(k))) =>
                            out.px[p] = req_image.px[p]
                  /\ \A k \in 1..2 : warps(k) =>
                        \A q \in region(eyeRect(k)) :
                            far(q, eyeRect(k).rc, EyeRadius(eye(k))) =>
                                EyeMap(eyeRect(k).xs[2] - eyeRect(k).xs[1],
                                       eyeRect(k).ys[2] - eyeRect(k).ys[1],
                                       eyeRect(k).rc, EyeRadius(eye(k)),
                                       req_strength)[q] = self(q)
            /\ morphed[1].func = "_wide_smile" =>
                  /\ \A p \in Pixels(w, h) :
                        (MouthRadius(mouth) >= MinMouthRadius
                             => ~within(p, mouthRect)) =>
                            out.px[p] = req_image.px[p]
                  /\ MouthRadius(mouth) >= MinMouthRadius =>
                        \A q \in region(mouthRect) :
                            far(q, mouthRect.rc, MouthRadius(mouth)) =>
                                SmileMap(mouthRect.xs[2] - mouthRect.xs[1],
                                         mouthRect.ys[2] - mouthRect.ys[1],
                                         mouthRect.rc, MouthRadius(mouth),
                                         req_strength)[q] = self(q)

\* C13's case: big_eyes at strength 1.0 with the right eye across the left
\* edge and the left eye too small to warp: pixels under the eye change,
\* the rest of its rectangle and the columns right of it keep their values
C13_Witness ==
    /\ morphed # <<>>
    /\ morphed[1].func = "_big_eyes"
    /\ req_strength = 10
    /\ req_image = Ramp(LocalW, LocalH)
    /\ Centre(SubSeq(req_landmarks, 37, 42)) = <<-3, 1>>
    /\ EyeRadius(SubSeq(req_landmarks, 37, 42)) = 6
    /\ EyeRadius(SubSeq(req_landmarks, 43, 48)) < MinEyeRadius
    /\ LocalRect(<<-3, 1>>, 16, LocalW, LocalH).xs = <<0, 13>>
    /\ morphed[1].img # Raised
    /\ morphed[1].img.px[<<1, 1>>] # req_image.px[<<1, 1>>]
    /\ morphed[1].img.px[<<1, 8>>] = req_image.px[<<1, 8>>]
    /\ morphed[1].img.px[<<1, 15>>] = req_image.px[<<1, 15>>]

\* C16: for every image, 68-point landmark set, effect id and strength,
\* apply returns an image of the input's height, width and channel count,
\* in a buffer of its own, the input being left as it was.
C16_SameShapeFreshBuffer ==
    (morphed # <<>> /\ req_landmarks # NoPoints) =>
        /\ morphed[1].img # Raised
        /\ morphed[1].img.w = req_image.w
        /\ morphed[1].img.h = req_image.h
        /\ DOMAIN morphed[1].img.px = Pixels(req_image.w, req_image.h)
        /\ \A p \in Pixels(req_image.w, req_image.h) :
              Len(morphed[1].img.px[p]) = Len(req_image.px[p])
        /\ morphed[1].buf = "fresh"

\* C17: in big_eyes and wide_smile, for every 68-point landmark set the
\* detector can produce, the rectangle about each eye that is warped and
\* about the mouth has 0 <= x1 < x2 <= w and 0 <= y1 < y2 <= h, the region
\* handed to remap is not empty and apply does not raise.
C17_RegionNeverEmpty ==
    (morphed # <<>> /\ req_landmarks # NoPoints
              /\ morphed[1].func \in {"_big_eyes", "_wide_smile"}) =>
        LET w == req_image.w
            h == req_image.h
            ordered(c, r) == /\ 0 <= Max2(0, c[1] - r)
                             /\ Max2(0, c[1] - r) < Min2(w, c[1] + r)
                             /\ Min2(w, c[1] + r) <= w
                             /\ 0 <= Max2(0, c[2] - r)
                             /\ Max2(0, c[2] - r) < Min2(h, c[2] + r)
                             /\ Min2(h, c[2] + r) <= h
            filled(c, r) == LET rect == LocalRect(c, r, w, h)
                            IN  rect.xs[1] < rect.xs[2] /\ rect.ys[1] < rect.ys[2]
            eye(k) == SubSeq(req_landmarks, 31 + 6 * k, 36 + 6 * k)
            mouth == SubSeq(req_landmarks, 49, 68)
        IN  /\ morphed[1].func = "_big_eyes" =>
                  \A k \in 1..2 : EyeRadius(eye(k)) >= MinEyeRadius =>
                      /\ ordered(Centre(eye(k)), EyeRadius(eye(k)) + 10)
                      /\ filled(Centre(eye(k)), EyeRadius(eye(k)) + 10)
            /\ (/\ morphed[1].func = "_wide_smile"
                /\ MouthRadius(mouth) >= MinMouthRadius) =>
                      /\ ordered(Centre(mouth), MouthRadius(mouth) + 15)
                      /\ filled(Centre(mouth), MouthRadius(mouth) + 15)
            /\ morphed[1].img # Raised

\* C18: an eye or a mouth whose radius is below 5 px is passed over.  In
\* big_eyes an eye of radius < 5 leaves the working copy as it is and the
\* other eye is warped as if alone; in wide_smile a mouth of radius < 5
\* gives a copy of the input; the passing over raises nothing.
C18_SmallRadiusIsSkipped ==
    (morphed # <<>> /\ req_landmarks # NoPoints) =>
        LET w == req_image.w
            h == req_image.h
            out == morphed[1].img
            eye(k) == SubSeq(req_landmarks, 31 + 6 * k, 36 + 6 * k)
            small(k) == EyeRadius(eye(k)) < 5
            alone(k) ==
                LET rect == LocalRect(Centre(eye(k)), EyeRadius(eye(k)) + 10, w, h)
                    warped == Remap(Crop(req_image, rect.ys, rect.xs),
                                    EyeMap(rect.xs[2] - rect.xs[1],
                                           rect.ys[2] - rect.ys[1], rect.rc,
                                           EyeRadius(eye(k)), req_strength))
                IN  IF warped = Raised THEN Raised
                    ELSE Paste(req_image, rect.ys, rect.xs, warped)
        IN  /\ morphed[1].func = "_big_eyes" =>
                  /\ (small(1) /\ small(2)) => out = req_image
                  /\ (small(1) /\ ~small(2)) => out = alone(2)
                  /\ (small(2) /\ ~small(1)) => out = alone(1)
                  /\ morphed[1].buf = "fresh"
            /\ (/\ morphed[1].func = "_wide_smile"
                /\ MouthRadius(SubSeq(req_landmarks, 49, 68)) < 5) =>
                      /\ out = req_image
                      /\ morphed[1].buf = "fresh"

\* C18's case: big_eyes at strength 1.0 with a left eye of radius 3 and a
\* right eye of radius 6 across the left edge, which alone is warped
C18_Witness ==
    /\ morphed # <<>>
    /\ morphed[1].func = "_big_eyes"
    /\ req_strength = 10
    /\ EyeRadius(SubSeq(req_landmarks, 43, 48)) = 3
    /\ EyeRadius(SubSeq(req_landmarks, 37, 42)) = 6
    /\ Centre(SubSeq(req_landmarks, 37, 42)) = <<-3, 1>>
    /\ Centre(SubSeq(req_landmarks, 43, 48)) = <<LocalW - 4, 1>>
    /\ morphed[1].img # Raised
    /\ morphed[1].img # req_image
    /\ morphed[1].img.px[<<1, LocalW - 4>>] = req_image.px[<<1, LocalW - 4>>]

(***************************************************************************)
(* BackgroundReplacer._segment_person, bg_replacer.py lines 92-186.  The   *)
(* image enters by its shape, by the edge map Canny finds in it and by     *)
(* what grabCut makes of it; a trimap holds "BGD", "FGD", "PR_BGD" or      *)
(* "PR_FGD" per pixel, a binary mask 0 or 255.                             *)
(***************************************************************************)
\* lines 99-111: rect = <<body_left, body_top, width, height>>
BodyRect(w, h, bbox) ==
    LET fw == bbox[3] - bbox[1]
        fh == bbox[4] - bbox[2]
        body_top   == Max2(0, bbox[2] - Trunc(fh * 5, 10))
        body_bot   == Min2(h, bbox[4] + Trunc(fh * 65, 10))
        body_left  == Max2(0, bbox[1] - Trunc(fw * 18, 10))
        body_right == Min2(w, bbox[3] + Trunc(fw * 18, 10))
    IN  <<body_left, body_top, body_right - body_left, body_bot - body_top>>

\* a test that looks at the width alone
TooSmallWidthOnly(rect) == rect[3] < 2

\* line 113
TooSmall(rect) == rect[3] < 2 \/ rect[4] < 2

\* a[ys[1]:ys[2], xs[1]:xs[2]] holds p
InSlice(p, ys, xs) ==
    /\ ys[1] <= p[1] /\ p[1] < ys[2]
    /\ xs[1] <= p[2] /\ p[2] < xs[2]

\* mask_gc[body_top:body_bot, body_left:body_right] of line 126
InBody(p, rect, w, h) ==
    InSlice(p, PySlice(rect[2], rect[2] + rect[4], h),
               PySlice(rect[1], rect[1] + rect[3], w))

\* what a successful grabCut thinks of pixel p: the labelling is a function
\* of the image content, drawn here from three shapes
Likely(shape, p, w) ==
    CASE shape = "all"  -> TRUE
      [] shape = "none" -> FALSE
      [] shape = "left" -> 2 * p[2] < w

\* a pass 1 whose exception is not handled
Pass1Uncaught(w, h, rect, o1) ==
    [exc  |-> o1.kind = "raises",
     mask |-> Array([p \in Pixels(w, h) |->
                 IF ~InBody(p, rect, w, h) THEN "BGD"
                 ELSE IF Likely(o1.shape, p, w) THEN "PR_FGD" ELSE "PR_BGD"])]

\* lines 117-126: grabCut in rect mode on a zeroed mask; when it raises,
\* the body rectangle is filled with PR_FGD over the mask as grabCut left
\* it, which outside the rectangle is BGD
Pass1(w, h, rect, o1) ==
    [exc  |-> FALSE,
     mask |-> Array([p \in Pixels(w, h) |->
                 IF ~InBody(p, rect, w, h) THEN "BGD"
                 ELSE IF o1.kind = "raises" THEN "PR_FGD"
                 ELSE IF Likely(o1.shape, p, w) THEN "PR_FGD" ELSE "PR_BGD"])]

\* line 139
border == 4

\* a seeding that writes the border strips first and the padded face last
SeedFaceLast(mask_gc, w, h, bbox) ==
    LET fw == bbox[3] - bbox[1]
        fh == bbox[4] - bbox[2]
        face_pad == Trunc(Min2(fw, fh) * 15, 100)
        ys == PySlice(Max2(0, bbox[2] - face_pad), Min2(h, bbox[4] + face_pad), h)
        xs == PySlice(Max2(0, bbox[1] - face_pad), Min2(w, bbox[3] + face_pad), w)
        top    == PySlice(0, border, h)
        bottom == <<Max2(h - border, 0), h>>
        left   == PySlice(0, border, w)
        right  == <<Max2(w - border, 0), w>>
    IN  Array([p \in Pixels(w, h) |->
            IF InSlice(p, ys, xs) THEN "FGD"
            ELSE IF \/ InSlice(p, top, <<0, w>>) \/ InSlice(p, bottom, <<0, w>>)
                    \/ InSlice(p, <<0, h>>, left) \/ InSlice(p, <<0, h>>, right)
            THEN "BGD"
            ELSE mask_gc[p]])

\* lines 131-143: the padded face becomes FGD, then four strips of `border`
\* pixels become BGD
Seed(mask_gc, w, h, bbox) ==
    LET fw == bbox[3] - bbox[1]
        fh == bbox[4] - bbox[2]
        face_pad == Trunc(Min2(fw, fh) * 15, 100)
        ys == PySlice(Max2(0, bbox[2] - face_pad), Min2(h, bbox[4] + face_pad), h)
        xs == PySlice(Max2(0, bbox[1] - face_pad), Min2(w, bbox[3] + face_pad), w)
        top    == PySlice(0, border, h)
        bottom == <<Max2(h - border, 0), h>>
        left   == PySlice(0, border, w)
        right  == <<Max2(w - border, 0), w>>
    IN  Array([p \in Pixels(w, h) |->
            IF \/ InSlice(p, top, <<0, w>>) \/ InSlice(p, bottom, <<0, w>>)
               \/ InSlice(p, <<0, h>>, left) \/ InSlice(p, <<0, h>>, right)
            THEN "BGD"
            ELSE IF InSlice(p, ys, xs) THEN "FGD"
            ELSE mask_gc[p]])

\* lines 145-149: grabCut in mask mode settles the probable pixels and
\* leaves BGD and FGD; when it raises before it writes, the mask stays
Pass2(mask_gc, w, h, o2) ==
    IF o2.kind = "raises" THEN mask_gc
    ELSE Array([p \in Pixels(w, h) |->
            IF mask_gc[p] \in {"BGD", "FGD"} THEN mask_gc[p]
            ELSE IF Likely(o2.shape, p, w) THEN "PR_FGD" ELSE "PR_BGD"])

\* line 151: np.isin(mask_gc, [GC_FGD, GC_PR_FGD]) * 255
PersonBin(mask_gc, w, h) ==
    Array([p \in Pixels(w, h) |->
        IF mask_gc[p] \in {"FGD", "PR_FGD"} THEN 255 ELSE 0])

\* cv2.getStructuringElement(cv2.MORPH_ELLIPSE, (n, n)) as offsets <<dy, dx>>
Ellipse(n) ==
    LET r == n \div 2
    IN  {t \in ((-r)..r) \X ((-r)..r) :
            Abs(t[2]) <= (ISqrt(4 * (r * r - t[1] * t[1])) + 1) \div 2}

\* lines 160, 171, 172
edge_kernel == Ellipse(3)
k_close == Ellipse(15)
k_open == Ellipse(7)

\* row y, column x is a pixel of a w x h image
Inside(y, x, w, h) == 0 <= y /\ y < h /\ 0 <= x /\ x < w

\* cv2.dilate / cv2.erode with `iterations`; pixels outside the image
\* do not take part
RECURSIVE Dilate(_, _, _, _, _)
Dilate(bin, w, h, kernel, iterations) ==
    IF iterations = 0 THEN bin
    ELSE Dilate(Array([p \in Pixels(w, h) |->
                    IF \E t \in kernel :
                          /\ Inside(p[1] + t[1], p[2] + t[2], w, h)
                          /\ bin[<<p[1] + t[1], p[2] + t[2]>>] = 255
                    THEN 255 ELSE 0]),
                w, h, kernel, iterations - 1)

RECURSIVE Erode(_, _, _, _, _)
Erode(bin, w, h, kernel, iterations) ==
    IF iterations = 0 THEN bin
    ELSE Erode(Array([p \in Pixels(w, h) |->
                    IF \A t \in kernel :
                          Inside(p[1] + t[1], p[2] + t[2], w, h)
                              => bin[<<p[1] + t[1], p[2] + t[2]>>] = 255
                    THEN 255 ELSE 0]),
               w, h, kernel, iterations - 1)

\* line 157: the edge map of the image, without edges or with one
\* vertical edge
Canny(edges, w, h) ==
    Array([p \in Pixels(w, h) |->
        CASE edges = "none"   -> 0
          [] edges = "column" -> IF p[2] = w \div 2 THEN 255 ELSE 0])

\* lines 160-168: a pixel of the boundary zone that lies on a dilated edge
\* joins the person
Refine(person_bin, edges, w, h) ==
    LET edges_dilated == Dilate(edges, w, h, edge_kernel, 1)
        grown         == Dilate(person_bin, w, h, edge_kernel, 6)
        shrunk        == Erode(person_bin, w, h, edge_kernel, 6)
    IN  Array([p \in Pixels(w, h) |->
            IF grown[p] - shrunk[p] > 0 /\ edges_dilated[p] > 0 THEN 255
            ELSE person_bin[p]])

\* lines 171-174: MORPH_CLOSE twice with the 15 x 15 ellipse, MORPH_OPEN
\* once with the 7 x 7 one
Cleanup(person_bin, w, h) ==
    LET closed == Erode(Dilate(person_bin, w, h, k_close, 2), w, h, k_close, 2)
    IN  Dilate(Erode(closed, w, h, k_open, 1), w, h, k_open, 1)

\* the 8-connected region of `on` that holds the pixels of `blob`
RECURSIVE Grow(_, _)
Grow(blob, on) ==
    LET next == blob \cup {q \in on : \E p \in blob :
                              Abs(q[1] - p[1]) <= 1 /\ Abs(q[2] - p[2]) <= 1}
    IN  IF next = blob THEN blob ELSE Grow(next, on)

\* the connected regions in label order: a region is numbered when the
\* raster scan meets its first pixel
RECURSIVE Components(_)
Components(on) ==
    IF on = {} THEN <<>>
    ELSE LET first == CHOOSE p \in on : \A q \in on :
                          p[1] < q[1] \/ (p[1] = q[1] /\ p[2] <= q[2])
             blob  == Grow({first}, on)
         IN  <<blob>> \o Components(on \ blob)

\* a selection that keeps the blob the raster scan meets first
KeepFirstBlob(binary_mask, w, h) ==
    LET blobs == Components({p \in Pixels(w, h) : binary_mask[p] = 255})
    IN  IF Len(blobs) = 0 THEN binary_mask
        ELSE Array([p \in Pixels(w, h) |-> IF p \in blobs[1] THEN 255 ELSE 0])

\* lines 190-200: _keep_largest_blob; np.argmax takes the first of equals
KeepLargestBlob(binary_mask, w, h) ==
    LET blobs == Components({p \in Pixels(w, h) : binary_mask[p] = 255})
        area(i) == Cardinality(blobs[i])
        largest == CHOOSE i \in 1..Len(blobs) :
                      /\ \A j \in 1..Len(blobs) : area(j) <= area(i)
                      /\ \A j \in 1..(i - 1) : area(j) < area(i)
    IN  IF Len(blobs) = 0 THEN binary_mask
        ELSE Array([p \in Pixels(w, h) |-> IF p \in blobs[largest] THEN 255 ELSE 0])

\* cv2.getGaussianKernel(21, 3.5) in units of 1/4096, entry |k| + 1 for the
\* tap at distance k; sigma = 0.3 * ((21 - 1) * 0.5 - 1) + 0.8
GaussianKernel == <<468, 449, 398, 324, 244, 169, 108, 63, 34, 17, 8>>

\* the float 1.0 of a soft mask: the row pass and the column pass of the
\* blur each carry the kernel's unit
One == 4096 * 4096

\* line 181: cv2.GaussianBlur(person_bin / 255.0, (21, 21), 0), rows then
\* columns, BORDER_REFLECT_101
GaussianBlur(bin, w, h) ==
    LET r == Len(GaussianKernel) - 1
        g(k) == GaussianKernel[Abs(k) + 1]
        rows == Array([p \in Pixels(w, h) |->
                   Sum([k \in (-r)..r |->
                          g(k) * (bin[<<p[1], Reflect101(p[2] + k, w)>>] \div 255)],
                       -r, r)])
    IN  Array([p \in Pixels(w, h) |->
            Sum([k \in (-r)..r |-> g(k) * rows[<<Reflect101(p[1] + k, h), p[2]>>]],
                -r, r)])

\* line 184: np.clip(soft_mask * 1.4, 0.0, 1.0)
Resharpen(soft) == Clip((soft * 14) \div 10, 0, One)

\* lines 92-186: _segment_person for one image and bbox, with what the two
\* grabCut calls do
SegmentPerson(w, h, bbox, edges, o1, o2) ==
    LET rect    == BodyRect(w, h, bbox)
        first   == Pass1(w, h, rect, o1)
        seeded  == Seed(first.mask, w, h, bbox)
        second  == Pass2(seeded, w, h, o2)
        refined == Refine(PersonBin(second, w, h), Canny(edges, w, h), w, h)
        blob    == KeepLargestBlob(Cleanup(refined, w, h), w, h)
        soft    == GaussianBlur(blob, w, h)
    IN  IF TooSmall(rect)                                   \* lines 113-114
        THEN [rect |-> rect, raised |-> FALSE, grabCut |-> 0, pass1 |-> <<>>,
              seeded |-> <<>>, pass2 |-> <<>>,
              mask |-> [p \in Pixels(w, h) |-> One]]
        ELSE IF first.exc
        THEN [rect |-> rect, raised |-> TRUE, grabCut |-> 1, pass1 |-> <<>>,
              seeded |-> <<>>, pass2 |-> <<>>, mask |-> <<>>]
        ELSE [rect |-> rect, raised |-> FALSE, grabCut |-> 2, pass1 |-> first.mask,
              seeded |-> seeded, pass2 |-> second,
              mask |-> [p \in Pixels(w, h) |-> Resharpen(soft[p])]]

(***************************************************************************)
(* Calls of _segment_person: bg_replacer.py line 21.                       *)
(***************************************************************************)
\* face boxes: a face inside the frame, boxes without width or height or
\* turned inside out, boxes one pixel wide or high, a box beyond the right
\* edge, a box left of and above the frame, and a face wide and high
\* enough to be padded by one pixel
SegBoxes ==
    {<<3, 3, 7, 6>>, <<5, 2, 5, 6>>, <<2, 5, 6, 5>>, <<7, 3, 3, 6>>,
     <<4, 2, 5, 7>>, <<2, 4, 7, 5>>, <<MatteW + 2, 3, MatteW + 5, 7>>,
     <<-6, -5, -2, -1>>, <<1, 1, 8, 9>>}
\* what the call in rect mode and the call in mask mode may do
Pass1Outcomes ==
    {[kind |-> "raises", shape |-> "none"]} \cup
    {[kind |-> "returns", shape |-> s] : s \in {"all", "left"}}
Pass2Outcomes ==
    {[kind |-> "raises", shape |-> "none"]} \cup
    {[kind |-> "returns", shape |-> s] : s \in {"none", "left"}}

SegmentPersonCall ==
    /\ seg_call = <<>>
    /\ \E o1 \in Pass1Outcomes, o2 \in Pass2Outcomes :
          seg_call' = <<[o1 |-> o1, o2 |-> o2,
                         out |-> SegmentPerson(seg_req.w, seg_req.h, seg_req.bbox,
                                               seg_req.edges, o1, o2)]>>
    /\ UNCHANGED <<seg_req, blob_req, blob_out, bg_req, bg_out,
                   cacheVars, threadVars, lmVars, morphVars>>

\* a call as it reaches line 21
InitMatte ==
    /\ seg_req \in [w : {MatteW}, h : {MatteH}, bbox : SegBoxes, edges : {"none", "column"}]
    /\ seg_call = <<>>
    /\ blob_req = <<>> /\ blob_out = <<>> /\ bg_req = <<>> /\ bg_out = <<>>
    /\ NewBackgroundReplacer /\ LandmarksIdle /\ MorphIdle

SpecMatte == InitMatte /\ [][SegmentPersonCall]_vars

AllOnes(mask, w, h) ==
    DOMAIN mask = Pixels(w, h) /\ \A p \in Pixels(w, h) : mask[p] = One

\* C7 as stated: a face bbox with x2 - x1 < 2 or y2 - y1 < 2 gets the
\* all-ones mask of the image's shape, and no segmentation pass runs.
C7_SmallFaceBoxGetsOnes ==
    (seg_call # <<>> /\ (\/ seg_req.bbox[3] - seg_req.bbox[1] < 2
                   \/ seg_req.bbox[4] - seg_req.bbox[2] < 2)) =>
        /\ AllOnes(seg_call[1].out.mask, seg_req.w, seg_req.h)
        /\ seg_call[1].out.grabCut = 0

\* C7, amended: when the body rectangle derived from the face bbox and cut
\* to the image is less than 2 pixels wide or high, as it is for every bbox
\* with x2 - x1 <= 0 or y2 - y1 <= 0, the call returns the all-ones mask of
\* the image's shape and no segmentation pass runs.
C7_SmallBodyRectGetsOnes ==
    seg_call # <<>> =>
        LET rect == BodyRect(seg_req.w, seg_req.h, seg_req.bbox)
        IN  /\ (rect[3] < 2 \/ rect[4] < 2) =>
                  /\ AllOnes(seg_call[1].out.mask, seg_req.w, seg_req.h)
                  /\ seg_call[1].out.grabCut = 0
            /\ (\/ seg_req.bbox[3] - seg_req.bbox[1] <= 0
                \/ seg_req.bbox[4] - seg_req.bbox[2] <= 0) =>
                  (rect[3] < 2 \/ rect[4] < 2)

\* C7's case: a bbox without height whose body rectangle is ten pixels wide
C7_Witness ==
    /\ seg_call # <<>>
    /\ seg_req.bbox = <<2, 5, 6, 5>>
    /\ BodyRect(seg_req.w, seg_req.h, seg_req.bbox)[3] >= 2
    /\ BodyRect(seg_req.w, seg_req.h, seg_req.bbox)[4] < 2
    /\ seg_call[1].out.grabCut = 0

\* C8: for every image and bbox, and whether each grabCut call returns or
\* raises, _segment_person returns without raising a mask of the image's
\* height and width with every value in [0, 1]; when pass 1 raises, the
\* trimap has PR_FGD on the whole body rectangle and the later stages run;
\* when pass 2 raises, the seeded trimap is used as it is.
C8_AlwaysAValidMask ==
    seg_call # <<>> =>
        LET c == seg_call[1]
            w == seg_req.w
            h == seg_req.h
        IN  /\ ~c.out.raised
            /\ DOMAIN c.out.mask = Pixels(w, h)
            /\ \A p \in Pixels(w, h) : 0 <= c.out.mask[p] /\ c.out.mask[p] <= One
            /\ (c.out.grabCut > 0 /\ c.o1.kind = "raises") =>
                  /\ \A p \in Pixels(w, h) :
                        c.out.pass1[p] =
                            IF InBody(p, c.out.rect, w, h) THEN "PR_FGD" ELSE "BGD"
                  /\ c.out.grabCut = 2
                  /\ c.out.seeded = Seed(c.out.pass1, w, h, seg_req.bbox)
            /\ (c.out.grabCut > 0 /\ c.o2.kind = "raises") =>
                  c.out.pass2 = c.out.seeded

\* C8's case: both grabCut calls raise on a face inside the frame; the
\* trimap holds the body rectangle, the face and the border strips, and
\* the mask that comes back is the person grown over the border
C8_Witness ==
    /\ seg_call # <<>>
    /\ seg_req.bbox = <<3, 3, 7, 6>>
    /\ seg_call[1].o1.kind = "raises"
    /\ seg_call[1].o2.kind = "raises"
    /\ seg_call[1].out.grabCut = 2
    /\ seg_call[1].out.pass1[<<0, 0>>] = "BGD"
    /\ seg_call[1].out.pass1[<<2, 0>>] = "PR_FGD"
    /\ seg_call[1].out.pass2[<<4, 4>>] = "FGD"
    /\ seg_call[1].out.pass2[<<2, 0>>] = "BGD"
    /\ seg_call[1].out.mask[<<2, 0>>] = One

(***************************************************************************)
(* Calls of _keep_largest_blob: bg_replacer.py line 177, on every binary   *)
(* mask of a small frame.                                                  *)
(***************************************************************************)
KeepLargestBlobCall ==
    /\ blob_out = <<>>
    /\ blob_out' = <<KeepLargestBlob(blob_req, BlobW, BlobH)>>
    /\ UNCHANGED <<blob_req, seg_req, seg_call, bg_req, bg_out,
                   cacheVars, threadVars, lmVars, morphVars>>

\* the mask as it reaches line 177: 0 or 255 per pixel, with at most
\* MaxBlobPixels white pixels
InitBlob ==
    /\ \E on \in SUBSET Pixels(BlobW, BlobH) :
          /\ Cardinality(on) <= MaxBlobPixels
          /\ blob_req = [p \in Pixels(BlobW, BlobH) |->
                             IF p \in on THEN 255 ELSE 0]
    /\ blob_out = <<>>
    /\ seg_req = <<>> /\ seg_call = <<>> /\ bg_req = <<>> /\ bg_out = <<>>
    /\ NewBackgroundReplacer /\ LandmarksIdle /\ MorphIdle

SpecBlob == InitBlob /\ [][KeepLargestBlobCall]_vars

\* C14: _keep_largest_blob returns a mask whose foreground lies within the
\* input's foreground and is one 8-connected blob of the input of the
\* largest area; of two disjoint blobs of areas A > B exactly the A-area
\* blob is kept; a mask without foreground is returned as it is.
C14_KeepsOneLargestBlob ==
    blob_out # <<>> =>
        LET px  == Pixels(BlobW, BlobH)
            on  == {p \in px : blob_req[p] # 0}
            out == {p \in px : blob_out[1][p] # 0}
            blobs == {Grow({p}, on) : p \in on}
        IN  /\ DOMAIN blob_out[1] = px
            /\ \A p \in px : blob_out[1][p] \in {0, 255}
            /\ out \subseteq on
            /\ on = {} => blob_out[1] = blob_req
            /\ on # {} =>
                  /\ out \in blobs
                  /\ \A B \in blobs : Cardinality(B) <= Cardinality(out)
            /\ \A A, B \in blobs :
                  (blobs = {A, B} /\ Cardinality(A) > Cardinality(B)) => out = A

\* C14's case: a blob of two pixels in the left column, which the raster
\* scan meets first, and a blob of three pixels in the right column
C14_Witness ==
    /\ blob_out # <<>>
    /\ {p \in Pixels(BlobW, BlobH) : blob_req[p] = 255}
          = {<<0, 0>>, <<1, 0>>, <<0, BlobW - 1>>, <<1, BlobW - 1>>, <<2, BlobW - 1>>}
    /\ {p \in Pixels(BlobW, BlobH) : blob_out[1][p] = 255}
          = {<<0, BlobW - 1>>, <<1, BlobW - 1>>, <<2, BlobW - 1>>}

(***************************************************************************)
(* BackgroundReplacer.apply, bg_replacer.py lines 17-27, and _add_vignette,*)
(* lines 206-213.  The blend of line 24 is computed in numpy float32: a    *)
(* float32 value >= 0 is <<M, e>>, standing for M * 2^e with               *)
(* 2^23 <= M < 2^24, and <<0, 0>> for 0.0.                                 *)
(***************************************************************************)
\* the number of binary digits of n
RECURSIVE Bits(_)
Bits(n) == IF n = 0 THEN 0 ELSE 1 + Bits(n \div 2)

\* the float32 nearest to (N + f) * 2^e, ties to even; f is 0 when
\* sticky = 0 and lies strictly between 0 and 1 when sticky = 1
F32(N, sticky, e) ==
    IF N = 0 THEN <<0, 0>>
    ELSE IF Bits(N) <= 24 THEN <<N * 2 ^ (24 - Bits(N)), e - (24 - Bits(N))>>
    ELSE LET d    == Bits(N) - 24
             q    == N \div 2 ^ d
             r    == N % 2 ^ d
             half == 2 ^ (d - 1)
             up   == r > half \/ (r = half /\ (sticky = 1 \/ q % 2 = 1))
         IN  IF ~up THEN <<q, e + d>>
             ELSE IF q + 1 = 2 ^ 24 THEN <<2 ^ 23, e + d + 1>>
             ELSE <<q + 1, e + d>>

\* image.astype(np.float32) * mask3, line 24: a sample a in 0..255 times a
\* float32; the product a * M is formed in two parts to stay within 32 bits
MulByte(a, x) ==
    LET lo == a * (x[1] % 256)
        T2 == a * (x[1] \div 256) * 128 + lo \div 2
    IN  IF T2 < 2 ^ 24 THEN F32(2 * T2 + (lo % 2), 0, x[2])
        ELSE F32(T2, lo % 2, x[2] + 1)

\* 1.0 - mask3, line 25, for a float32 in [0, 1]
OneMinus(x) ==
    IF x[1] = 0 THEN <<2 ^ 23, -23>>
    ELSE IF -x[2] <= 30 THEN F32(2 ^ (-x[2]) - x[1], 0, x[2])
    ELSE LET k == Min2(-x[2] - 30, 24)
         IN  F32(2 ^ 30 - (x[1] + 2 ^ k - 1) \div 2 ^ k,
                 IF x[1] % 2 ^ k = 0 THEN 0 ELSE 1, -30)

\* the float32 sum of line 24
AddF32(x, y) ==
    IF x[1] = 0 THEN y
    ELSE IF y[1] = 0 THEN x
    ELSE LET big   == IF x[2] >= y[2] THEN x ELSE y
             small == IF x[2] >= y[2] THEN y ELSE x
             diff  == big[2] - small[2]
             k     == Min2(diff - 6, 24)
         IN  IF diff <= 6 THEN F32(big[1] * 2 ^ diff + small[1], 0, small[2])
             ELSE F32(big[1] * 64 + small[1] \div 2 ^ k,
                      IF small[1] % 2 ^ k = 0 THEN 0 ELSE 1, big[2] - 6)

\* lines 24-26 for one sample: image * mask + bg * (1 - mask), clipped to
\* [0, 255] and cut to uint8 by astype, which drops the fraction
Blend(a, b, m) ==
    LET r == AddF32(MulByte(a, m), MulByte(b, OneMinus(m)))
    IN  IF r[1] = 0 THEN 0
        ELSE IF r[2] >= -15 THEN 255
        ELSE IF -r[2] > 30 THEN 0
        ELSE r[1] \div 2 ^ (-r[2])


\* the backdrop sample at pixel p = <<y, x>> of a rendered backdrop c: the
\* header bar of line 69 covers rows 0..hdr_h, the footer bar of line 76
\* rows ftr_y..h-1, both (12, 18, 45); a row between them shows the wall.
\* Ruler marks and glyphs are not rasterised here: rows between the bars
\* exist only in frames more than 28 rows high
BackdropPixel(c, p) ==
    IF p[1] <= c.hdr_h \/ p[1] >= c.ftr_y THEN <<12, 18, 45>> ELSE c.wall[p[1]]

\* lines 206-213: _add_vignette, each sample times the clipped vig, cut to
\* uint8; vig at pixel p = <<y, x>> is the fraction num(p) / den of
\* 4 gy (1 - gy) * 4 gx (1 - gx) * 1.15 with gy = y / (h - 1) and
\* gx = x / (w - 1); np.linspace(0, 1, 1) is [0.0]
AddVignette(w, h, px) ==
    LET num(p) == 16 * 115 * p[1] * (h - 1 - p[1]) * p[2] * (w - 1 - p[2])
        den    == 100 * (h - 1) * (h - 1) * (w - 1) * (w - 1)
    IN  Array([p \in Pixels(w, h) |->
            [ch \in 1..3 |->
                IF num(p) >= den THEN px[p][ch]
                ELSE (px[p][ch] * num(p)) \div den]])

\* lines 23-27 for an image, the backdrop of line 20 and the mask of line 21
Composite(image, bg, mask) ==
    LET result == Array([p \in Pixels(image.w, image.h) |->
                     [ch \in 1..3 |-> Blend(image.px[p][ch], bg[p][ch], mask[p])]])
    IN  [image |-> image.px, bg |-> bg, mask |-> mask, result |-> result,
         out |-> AddVignette(image.w, image.h, result)]

(***************************************************************************)
(* Calls of BackgroundReplacer.apply: app.py line 125.                     *)
(***************************************************************************)
\* lines 17-27: the backdrop comes from _make_mugshot_bg, the mask is what
\* _segment_person returned
BgApplyCall ==
    /\ bg_req # <<>>
    /\ \E case_no \in CaseNos :
          /\ MakeMugshotBg(bg_req.image.w, bg_req.image.h, case_no)
          /\ bg_out' = <<Composite(bg_req.image,
                                   [p \in Pixels(bg_req.image.w, bg_req.image.h) |->
                                       BackdropPixel(lastCall'[1].content, p)],
                                   bg_req.mask)>>
    /\ UNCHANGED <<bg_req, seg_req, seg_call, blob_req, blob_out,
                   threadVars, lmVars, morphVars>>

\* masks as _segment_person returns them, float32 in [0, 1]: one value
\* everywhere (0.0, 1.0, 0.5 or 0.11779223382472992), and a feathered edge
\* that falls from 1.0 to 0.0 by columns
Masks(w, h) ==
    LET values == {<<0, 0>>, <<2 ^ 23, -23>>, <<2 ^ 23, -24>>, <<15809806, -27>>}
    IN  {[p \in Pixels(w, h) |-> m] : m \in values} \cup
        {[p \in Pixels(w, h) |->
            IF p[2] = 0 THEN <<2 ^ 23, -23>>
            ELSE IF p[2] = w - 1 THEN <<0, 0>> ELSE m] :
                m \in values \ {<<0, 0>>, <<2 ^ 23, -23>>}}

\* an image of the backdrop's own colour, a white one and a ramp
InitComposite ==
    /\ bg_req \in [image : {Image(CompW, CompH, [p \in Pixels(CompW, CompH) |-> c]) :
                               c \in {<<12, 18, 45>>, <<255, 255, 255>>}}
                           \cup {Ramp(CompW, CompH)},
                   mask  : Masks(CompW, CompH)]
    /\ bg_out = <<>>
    /\ seg_req = <<>> /\ seg_call = <<>> /\ blob_req = <<>> /\ blob_out = <<>>
    /\ NewBackgroundReplacer /\ LandmarksIdle /\ MorphIdle

SpecComposite == InitComposite /\ [][BgApplyCall]_vars

\* C15: when the mask is 1 everywhere apply returns exactly the vignette
\* applied to the subject image, when it is 0 everywhere exactly the
\* vignette applied to the backdrop, and for any mask in [0, 1] each
\* pre-vignette sample lies between the subject sample and the backdrop
\* sample.
C15_ConvexCombination ==
    bg_out # <<>> =>
        LET r  == bg_out[1]
            w  == bg_req.image.w
            h  == bg_req.image.h
        IN  /\ (\A p \in Pixels(w, h) : r.mask[p] = <<2 ^ 23, -23>>)
                  => r.out = AddVignette(w, h, r.image)
            /\ (\A p \in Pixels(w, h) : r.mask[p] = <<0, 0>>)
                  => r.out = AddVignette(w, h, r.bg)
            /\ \A p \in Pixels(w, h), ch \in 1..3 :
                  /\ Min2(r.image[p][ch], r.bg[p][ch]) <= r.result[p][ch]
                  /\ r.result[p][ch] <= Max2(r.image[p][ch], r.bg[p][ch])


====
